---- MODULE Spec2Model ----
(***************************************************************************)
(* The ingestion/cache engine of ledger-api-countervalue: the promise      *)
(* aware throttle (utils.js promiseThrottle over lodash/throttle), the     *)
(* throttled histo refresh (cache.js fetchAndCacheHisto, fetchHisto,       *)
(* syncPairStats), the store operations it issues without awaiting them,   *)
(* the live-rate pipeline (cache.js pullLiveRates), the supervision loop  *)
(* of the sync process (sync.js pullLoop) with the provider's socket       *)
(* subscription (providers/coinapi.js subscribePriceUpdate), and the read  *)
(* operations (cache.js getHistoRequest, getExchanges over the queries of  *)
(* db/mongodb.js).                                                         *)
(*                                                                         *)
(* Time is counted in minutes since an arbitrary local midnight; every     *)
(* duration of the source (milliseconds) is written in minutes. The        *)
(* supervision loop and the throttles of the pair-exchanges and exchanges  *)
(* refreshes count in seconds.                                             *)
(***************************************************************************)
EXTENDS Integers, Sequences, FiniteSets, TLC

VARIABLES
  now,                        \* the wall clock (Date.now()), in minutes
  elapsed,                    \* clock steps taken so far
  fetchAndCacheHisto_caches,  \* key (id, granularity) -> state of its lodash throttle
  invs,                       \* key -> the invocations of the throttled action (their promises)
  calls,                      \* key -> log of the calls to fetchAndCacheHisto and what they were handed
  nCancel,                    \* key -> number of throttleFn.cancel() so far
  db,                         \* pairExchanges collection: id -> document
  pendingWrites,              \* store writes issued and not awaited, still in flight
  buf,                        \* bufferTime's current window of PriceUpdate
  seenRaw,                    \* id -> raw closes / prices the provider delivered so far
  liveLog,                    \* lists handed to db.updateLiveRates so far
  emitted,                    \* number of price updates the provider has emitted
  windows,                    \* the non-empty buffers bufferTime has handed to the subscriber
  uptime,                     \* seconds since the process started (the clock of setTimeout)
  timers,                     \* the setTimeout calls of the supervision loop still pending
  subs,                       \* the runs of pullLoop: their pullLiveRates subscription and socket
  websocketTotal,             \* the provider's count of sockets
  exited,                     \* process.exit(1) has been called
  pairsThrottle,              \* the lodash throttle of fetchAndCacheAvailablePairExchanges
  pairsInvs,                  \* the invocations of fetchAndCacheAvailablePairExchanges
  reqs,                       \* the getHistoRequest and getExchanges calls made so far
  exchangesThrottle,          \* the lodash throttle of fetchAndCacheAllExchanges
  exchangesInvs,              \* the invocations of fetchAndCacheAllExchanges
  dbExchanges,                \* exchanges collection: the documents stored
  BLACKLIST_EXCHANGES,        \* process.env.BLACKLIST_EXCHANGES, as its comma-separated entries
  prefetch,                   \* the run of prefetchAllPairExchanges: where it is and what it has called
  syncJob,                    \* the run of syncAllPairExchangeStats
  marketcapThrottle,          \* the lodash throttle of fetchDailyMarketCapCoins
  marketcapInvs,              \* the invocations of fetchDailyMarketCapCoins
  dbMarketcap,                \* marketcap_coins collection: day -> coins
  capWrites,                  \* db.updateMarketCapCoins calls issued and not awaited, in flight
  grown,                      \* days added to stored daily histos by HistoGrows
  probe,                      \* the last evaluation of a function of utils.js: its arguments and result
  asked,                      \* the granularity the callers of this run ask for
  feed                        \* the shape of the series the provider serves in this run

vars == <<now, elapsed, fetchAndCacheHisto_caches, invs, calls, nCancel, db,
          pendingWrites, buf, seenRaw, liveLog, emitted, windows, uptime, timers,
          subs, websocketTotal, exited, pairsThrottle, pairsInvs, reqs,
          exchangesThrottle, exchangesInvs, dbExchanges, BLACKLIST_EXCHANGES,
          prefetch, syncJob, marketcapThrottle, marketcapInvs, dbMarketcap,
          capWrites, grown, probe, asked, feed>>

(***************************************************************************)
(* Bounds of the model                                                     *)
(***************************************************************************)
MaxTicks == 4
MaxInputs == 3
MaxFaults == 1
MaxLaunches == 5
MaxStreamEnds == 2
MaxRequests == 2
MaxRuns == 2
MaxGrowth == 2

\* one clock step, in minutes
Steps == {5}
\* the instants a run may start at: 23:50 (the day and the hour change two
\* steps later) and 00:40 (one hour bucket for four steps, then 01:00)
StartTimes == {14390, 14440}

(***************************************************************************)
(* JavaScript values                                                       *)
(***************************************************************************)
Null == <<"null", 0>>
\* a job that has not been started
NoJob == [pc |-> "idle"]
\* no function evaluated yet
NoProbe == [fn |-> "none"]
DateOf(t) == <<"date", t>>
NoTime == -1

(***************************************************************************)
(* utils.js                                                                *)
(***************************************************************************)
Granularities == {"daily", "hourly"}

granularityMs == [daily |-> 1440, hourly |-> 60]

\* a bucket key: the local day (or hour) the instant falls in
formatTime(t, granularity) == <<granularity, t \div granularityMs[granularity]>>

\* new Date(key): the instant the bucket starts at
parseTime(key, granularity) == key[2] * granularityMs[granularity]

LatestKey == <<"latest", 0>>

\* str.split("_"): a name the model knows to hold "_" gives its segments,
\* any other name is one segment
split(str) ==
  IF str = "OKCOIN_CNY" THEN <<"OKCOIN", "CNY">> ELSE <<str>>

\* pairExchangeFromId that reads the quote before the base
pairExchangeFromId_swapped(id) ==
  [id |-> id, exchange |-> id[1], from |-> id[3], to |-> id[2]]

\* an id is the list of its "_"-separated segments
pairExchangeFromId(id) ==
  [id |-> id, exchange |-> id[1], from |-> id[2], to |-> id[3]]

\* pairExchange(exchange, from, to): the id is `${exchange}_${from}_${to}`
pairExchangeOf(exchange, from, to) ==
  [id |-> split(exchange) \o split(from) \o split(to),
   exchange |-> exchange, from |-> from, to |-> to]

NoPairExchange == [id |-> << >>, exchange |-> "", from |-> "", to |-> ""]

\* providers/coinapi.js symbolToPairExchange: symbol.split("_") gives
\* [exchange, type, from, to]; undefined unless type is "SPOT"
symbolToPairExchange(symbol) ==
  IF Len(symbol) < 2 \/ symbol[2] # "SPOT"
    THEN NoPairExchange
    ELSE pairExchangeOf(symbol[1],
                        IF Len(symbol) >= 3 THEN symbol[3] ELSE "undefined",
                        IF Len(symbol) >= 4 THEN symbol[4] ELSE "undefined")

\* the local clock of a host `offset` minutes east of UTC
localTime(t, offset) == t + offset

\* formatDay(d), formatHour(d): the day and the hour of d on the local clock
formatDay(t, offset) == <<"daily", localTime(t, offset) \div granularityMs.daily>>
formatHour(t, offset) == <<"hourly", localTime(t, offset) \div granularityMs.hourly>>

formats(granularity, t, offset) ==
  IF granularity = "daily" THEN formatDay(t, offset) ELSE formatHour(t, offset)

\* parsers: new Date("YYYY-MM-DD") is midnight UTC of the day, and
\* new Date("YYYY-MM-DDTHH:00") is the hour on the local clock
parsers(granularity, key, offset) ==
  IF granularity = "daily"
    THEN key[2] * granularityMs.daily
    ELSE key[2] * granularityMs.hourly - offset

\* units[0].magnitude of the currencies live-common lists
Magnitudes == [BTC |-> 8, USD |-> 2, ETH |-> 18]

allTickers == DOMAIN Magnitudes

supportTicker(ticker) == ticker \in allTickers

lenseMagnitude(cur) == Magnitudes[cur]

\* a number m * 10^e; a raw number has e = 0
Num(n) == [m |-> n, e |-> 0]

convertToCentSatRate_raw(from, to, value) == value

convertToCentSatRate(from, to, value) ==
  [m |-> value.m, e |-> value.e + (lenseMagnitude(to) - lenseMagnitude(from))]

(***************************************************************************)
(* utils.js promiseThrottle: lodash throttle(func, ms), which is           *)
(* debounce(func, ms, {leading: true, trailing: true, maxWait: ms}).       *)
(* A throttle state is the closure of debounce: lastArgs (set or not),     *)
(* lastCallTime, lastInvokeTime, timerId (the instant the pending timer    *)
(* is due, NoTime when there is none) and result (the index in invs of     *)
(* the promise the last invocation returned, 0 for undefined).             *)
(***************************************************************************)
throttles == [fetchPairExchanges |-> 60, fetchExchanges |-> 60, fetchHisto |-> 15]

FreshThrottle ==
  [lastArgs |-> FALSE, lastCallTime |-> NoTime, lastInvokeTime |-> 0,
   timerId |-> NoTime, result |-> 0]

Min(a, b) == IF a <= b THEN a ELSE b

shouldInvoke_always(th, time, wait) == TRUE

shouldInvoke(th, time, wait) ==
  \/ th.lastCallTime = NoTime
  \/ time - th.lastCallTime >= wait
  \/ time - th.lastCallTime < 0
  \/ time - th.lastInvokeTime >= wait

\* func.apply(thisArg, args): the invocation started now is number inv
invokeFunc(th, time, inv) ==
  [th EXCEPT !.lastArgs = FALSE, !.lastInvokeTime = time, !.result = inv]

leadingEdge(th, time, wait, inv) ==
  invokeFunc([th EXCEPT !.lastInvokeTime = time, !.timerId = time + wait], time, inv)

remainingWait(th, time, wait) ==
  Min(wait - (time - th.lastCallTime), wait - (time - th.lastInvokeTime))

trailingEdge_always(th, time, inv) ==
  invokeFunc([th EXCEPT !.timerId = NoTime], time, inv)

trailingEdge(th, time, inv) ==
  IF th.lastArgs
    THEN invokeFunc([th EXCEPT !.timerId = NoTime], time, inv)
    ELSE [th EXCEPT !.timerId = NoTime, !.lastArgs = FALSE]

timerExpired(th, time, wait, inv) ==
  IF shouldInvoke(th, time, wait)
    THEN trailingEdge(th, time, inv)
    ELSE [th EXCEPT !.timerId = time + remainingWait(th, time, wait)]

cancel_keepsWindow(th) == th

cancel(th) ==
  [th EXCEPT !.lastInvokeTime = 0, !.lastArgs = FALSE,
             !.lastCallTime = NoTime, !.timerId = NoTime]

\* the throttled function itself; the caller is handed promise number .result
debounced(th, time, wait, inv) ==
  LET isInvoking == shouldInvoke(th, time, wait)
      th1 == [th EXCEPT !.lastArgs = TRUE, !.lastCallTime = time]
  IN  IF isInvoking /\ th1.timerId = NoTime
        THEN leadingEdge(th1, time, wait, inv)
      ELSE IF isInvoking
        THEN invokeFunc([th1 EXCEPT !.timerId = time + wait], time, inv)
      ELSE IF th1.timerId = NoTime
        THEN [th1 EXCEPT !.timerId = time + wait]
      ELSE th1


(***************************************************************************)
(* Histo values and store documents                                        *)
(***************************************************************************)
\* a Histo is its set of entries [k |-> bucket key, v |-> rate], one per key
histoKeys(histo) == {x.k : x \in histo}

histoGet(histo, key) == (CHOOSE x \in histo : x.k = key).v

\* histo[key] = rate
histoSet(histo, key, rate) ==
  {x \in histo : x.k # key} \cup {[k |-> key, v |-> rate]}

\* what a promise resolves with: a histo, or undefined
NoValue == [tag |-> "none", h |-> {}]
UndefinedValue == [tag |-> "undefined", h |-> {}]
HistoValue(histo) == [tag |-> "histo", h |-> histo]

historyLoadedAtField(granularity) ==
  IF granularity = "daily" THEN "historyLoadedAt_daily" ELSE "historyLoadedAt_hourly"

histoField(granularity) ==
  IF granularity = "daily" THEN "histo_daily" ELSE "histo_hourly"

\* the document fetchAndCacheAvailablePairExchanges inserts for a pair
DefaultPairExchangeData(id) ==
  [from |-> id[2], to |-> id[3], exchange |-> id[1], id |-> id,
   latest |-> Num(0), latestDate |-> Null, yesterdayVolume |-> 0,
   oldestDayAgo |-> 0, hasHistoryFor1Year |-> FALSE,
   hasHistoryFor30LastDays |-> TRUE,
   historyLoadedAt_daily |-> Null, historyLoadedAt_hourly |-> Null,
   histo_daily |-> {}, histo_hourly |-> {}]

(***************************************************************************)
(* cache.js syncPairStats and fetchHisto                                   *)
(***************************************************************************)
MINIMAL_DAYS_TO_CONSIDER_EXCHANGE == 20
MAXIMUM_RATIO_EXTREME_VARIATION == 1000

SetMin(S) == CHOOSE x \in S : \A y \in S : x <= y
SetMax(S) == CHOOSE x \in S : \A y \in S : x >= y

\* a deriver that measures the age of the history from its newest day
syncPairStats_newest(pairExchangeId, histoDays, stats, nowT) ==
  LET granMs == granularityMs.daily
      days == {parseTime(k, "daily") : k \in histoKeys(histoDays) \ {LatestKey}}
      oldestDayAgo == (nowT - SetMax(days)) \div granMs
      hasLatest == LatestKey \in histoKeys(histoDays)
      latest == IF hasLatest THEN histoGet(histoDays, LatestKey).m ELSE 0
      walked == {formatTime(nowT - 30 * granMs + i * granMs, "daily") : i \in 0..28}
      counted == {k \in walked \cap histoKeys(histoDays) : histoGet(histoDays, k).m > 0}
      values == {histoGet(histoDays, k).m : k \in counted}
                  \cup (IF latest # 0 THEN {latest} ELSE {})
      historyCount == Cardinality(counted) + (IF hasLatest THEN 1 ELSE 0)
      \* maximum / minimum with minimum = Infinity and maximum = 0 when no value
      invalidRatio == values = {} \/ SetMax(values) <= 0 \/ SetMin(values) <= 0
      belowExtreme == SetMax(values) < MAXIMUM_RATIO_EXTREME_VARIATION * SetMin(values)
      hasHistoryFor30LastDays ==
        /\ historyCount >= MINIMAL_DAYS_TO_CONSIDER_EXCHANGE
        /\ ~invalidRatio
        /\ belowExtreme
  IN  IF days = {}
        THEN Null
        ELSE [oldestDayAgo |-> oldestDayAgo,
              hasHistoryFor30LastDays |-> hasHistoryFor30LastDays,
              hasHistoryFor1Year |-> oldestDayAgo > 365] @@ stats

\* a deriver that keeps the optimistic flag of a new document
syncPairStats_optimistic(pairExchangeId, histoDays, stats, nowT) ==
  LET granMs == granularityMs.daily
      days == {parseTime(k, "daily") : k \in histoKeys(histoDays) \ {LatestKey}}
      oldestDayAgo == (nowT - SetMin(days)) \div granMs
      hasLatest == LatestKey \in histoKeys(histoDays)
      latest == IF hasLatest THEN histoGet(histoDays, LatestKey).m ELSE 0
      walked == {formatTime(nowT - 30 * granMs + i * granMs, "daily") : i \in 0..28}
      counted == {k \in walked \cap histoKeys(histoDays) : histoGet(histoDays, k).m > 0}
      values == {histoGet(histoDays, k).m : k \in counted}
                  \cup (IF latest # 0 THEN {latest} ELSE {})
      historyCount == Cardinality(counted) + (IF hasLatest THEN 1 ELSE 0)
      \* maximum / minimum with minimum = Infinity and maximum = 0 when no value
      invalidRatio == values = {} \/ SetMax(values) <= 0 \/ SetMin(values) <= 0
      belowExtreme == SetMax(values) < MAXIMUM_RATIO_EXTREME_VARIATION * SetMin(values)
      hasHistoryFor30LastDays ==
        /\ historyCount >= MINIMAL_DAYS_TO_CONSIDER_EXCHANGE
        /\ ~invalidRatio
        /\ belowExtreme
  IN  IF days = {}
        THEN Null
        ELSE [oldestDayAgo |-> oldestDayAgo,
              hasHistoryFor30LastDays |-> TRUE,
              hasHistoryFor1Year |-> oldestDayAgo > 365] @@ stats

\* a deriver without the return on a histo that has no day
syncPairStats_writesEmpty(pairExchangeId, histoDays, stats, nowT) ==
  LET granMs == granularityMs.daily
      days == {parseTime(k, "daily") : k \in histoKeys(histoDays) \ {LatestKey}}
      oldestDayAgo == IF days = {} THEN 0 ELSE (nowT - SetMin(days)) \div granMs
      hasLatest == LatestKey \in histoKeys(histoDays)
      latest == IF hasLatest THEN histoGet(histoDays, LatestKey).m ELSE 0
      walked == {formatTime(nowT - 30 * granMs + i * granMs, "daily") : i \in 0..28}
      counted == {k \in walked \cap histoKeys(histoDays) : histoGet(histoDays, k).m > 0}
      values == {histoGet(histoDays, k).m : k \in counted}
                  \cup (IF latest # 0 THEN {latest} ELSE {})
      historyCount == Cardinality(counted) + (IF hasLatest THEN 1 ELSE 0)
      \* maximum / minimum with minimum = Infinity and maximum = 0 when no value
      invalidRatio == values = {} \/ SetMax(values) <= 0 \/ SetMin(values) <= 0
      belowExtreme == SetMax(values) < MAXIMUM_RATIO_EXTREME_VARIATION * SetMin(values)
      hasHistoryFor30LastDays ==
        /\ historyCount >= MINIMAL_DAYS_TO_CONSIDER_EXCHANGE
        /\ ~invalidRatio
        /\ belowExtreme
  IN  IF FALSE
        THEN Null
        ELSE [oldestDayAgo |-> oldestDayAgo,
              hasHistoryFor30LastDays |-> hasHistoryFor30LastDays,
              hasHistoryFor1Year |-> oldestDayAgo > 365] @@ stats

\* the stats syncPairStats hands to db.updatePairExchangeStats, or Null when
\* it returns before writing (no key other than "latest")
syncPairStats(pairExchangeId, histoDays, stats, nowT) ==
  LET granMs == granularityMs.daily
      days == {parseTime(k, "daily") : k \in histoKeys(histoDays) \ {LatestKey}}
      oldestDayAgo == (nowT - SetMin(days)) \div granMs
      hasLatest == LatestKey \in histoKeys(histoDays)
      latest == IF hasLatest THEN histoGet(histoDays, LatestKey).m ELSE 0
      walked == {formatTime(nowT - 30 * granMs + i * granMs, "daily") : i \in 0..28}
      counted == {k \in walked \cap histoKeys(histoDays) : histoGet(histoDays, k).m > 0}
      values == {histoGet(histoDays, k).m : k \in counted}
                  \cup (IF latest # 0 THEN {latest} ELSE {})
      historyCount == Cardinality(counted) + (IF hasLatest THEN 1 ELSE 0)
      \* maximum / minimum with minimum = Infinity and maximum = 0 when no value
      invalidRatio == values = {} \/ SetMax(values) <= 0 \/ SetMin(values) <= 0
      belowExtreme == SetMax(values) < MAXIMUM_RATIO_EXTREME_VARIATION * SetMin(values)
      hasHistoryFor30LastDays ==
        /\ historyCount >= MINIMAL_DAYS_TO_CONSIDER_EXCHANGE
        /\ ~invalidRatio
        /\ belowExtreme
  IN  IF days = {}
        THEN Null
        ELSE [oldestDayAgo |-> oldestDayAgo,
              hasHistoryFor30LastDays |-> hasHistoryFor30LastDays,
              hasHistoryFor1Year |-> oldestDayAgo > 365] @@ stats

\* history.sort((a, b) => b.time - a.time), a stable sort
RECURSIVE insertByTimeDesc(_, _)
insertByTimeDesc(sorted, p) ==
  IF sorted = <<>> THEN <<p>>
  ELSE IF Head(sorted).time >= p.time
    THEN <<Head(sorted)>> \o insertByTimeDesc(Tail(sorted), p)
  ELSE <<p>> \o sorted

RECURSIVE sortByTimeDesc(_)
sortByTimeDesc(history) ==
  IF history = <<>> THEN <<>>
  ELSE insertByTimeDesc(sortByTimeDesc(SubSeq(history, 1, Len(history) - 1)),
                        history[Len(history)])

bucketKey_inclusive(time, nowD, granularity) ==
  IF time >= nowD - granularityMs[granularity]
    THEN LatestKey
    ELSE formatTime(time, granularity)

\* the key fetchHisto files a point under
bucketKey(time, nowD, granularity) ==
  IF time > nowD - granularityMs[granularity]
    THEN LatestKey
    ELSE formatTime(time, granularity)


rateOf(from, to, close) == convertToCentSatRate(from, to, Num(close))

\* for (const data of history) histo[key] = rate
RECURSIVE fillHisto(_, _, _, _, _, _)
fillHisto(history, nowD, granularity, from, to, histo) ==
  IF history = <<>> THEN histo
  ELSE fillHisto(Tail(history), nowD, granularity, from, to,
                 histoSet(histo, bucketKey(Head(history).time, nowD, granularity),
                          rateOf(from, to, Head(history).close)))

yesterdayVolumeOf(history, nowT, granMs) ==
  IF Len(history) >= 2 /\ history[2].time > nowT - 2 * granMs
    THEN history[2].volume
    ELSE 0

\* fetchHisto once the provider has answered `series`: nowD is the clock
\* fetchHisto read before asking, nowS the clock when it goes on.  Gives
\* whether it throws (getFiatOrCurrency on an unknown ticker), the histo it
\* returns and the stats write its syncPairStats call issues (Null: none).
fetchHisto(pairExchangeId, granularity, series, nowD, nowS) ==
  LET history == sortByTimeDesc(series)
      pe == pairExchangeFromId(pairExchangeId)
      granMs == granularityMs[granularity]
      histo == fillHisto(history, nowD, granularity, pe.from, pe.to, {})
      loaded == (historyLoadedAtField(granularity) :> formatTime(nowD, granularity))
      hasLatest == LatestKey \in histoKeys(histo) /\ histoGet(histo, LatestKey).m # 0
      stats == (IF hasLatest THEN ("latestDate" :> DateOf(nowD)) @@ loaded ELSE loaded)
                 @@ ("yesterdayVolume" :> yesterdayVolumeOf(history, nowD, granMs))
  IN  IF ~(supportTicker(pe.from) /\ supportTicker(pe.to))
        THEN [throws |-> TRUE, histo |-> {}, stats |-> Null]
        ELSE [throws |-> FALSE, histo |-> histo,
              stats |-> IF granularity = "daily"
                          THEN syncPairStats(pairExchangeId, histo, stats, nowS)
                          ELSE Null]


(***************************************************************************)
(* The pairs of the model and what the provider may answer                 *)
(***************************************************************************)
KRAKEN_BTC_USD == <<"KRAKEN", "BTC", "USD">>
KRAKEN_ETH_USD == <<"KRAKEN", "ETH", "USD">>
KRAKEN_XXX_USD == <<"KRAKEN", "XXX", "USD">>
BITSTAMP_BTC_USD == <<"BITSTAMP", "BTC", "USD">>

\* the pairs the store holds a document for, and the ids histo is asked for
StoredIds == {KRAKEN_BTC_USD, KRAKEN_ETH_USD}
RefreshIds == {KRAKEN_BTC_USD}
Keys == RefreshIds \X Granularities

Point(time, close, volume) == [time |-> time, close |-> close, volume |-> volume]

bucketStart(t, granMs) == (t \div granMs) * granMs

\* the series provider.fetchHistoSeries may resolve with, for a refresh that
\* read the clock at t: the two points one and two buckets before t, no
\* point, the open bucket alone, and (oldest first) the last closed bucket
\* followed by the open one
\* (seriesOf knows two more: two points of the open bucket, and two points
\* of the last closed bucket followed by the open one)
Feeds == {"twoClosed", "empty", "openOnly", "closedThenOpen"}

seriesOf(shape, t, granularity) ==
  LET granMs == granularityMs[granularity]
      open == bucketStart(t, granMs)
  IN  CASE shape = "twoClosed" ->
             << Point(t - granMs, 100, 5), Point(t - 2 * granMs, 110, 7) >>
        [] shape = "empty" -> << >>
        [] shape = "openOnly" -> << Point(open, 120, 3) >>
        [] shape = "closedThenOpen" ->
             << Point(open - granMs, 110, 7), Point(open, 100, 5) >>
        [] shape = "twoOpen" ->
             << Point(open, 100, 5), Point(open + 1, 120, 3) >>
        [] shape = "sameDay" ->
             << Point(open - granMs, 110, 7), Point(open - granMs + 1, 130, 2),
                Point(open, 100, 5) >>

\* the price updates provider.subscribePriceUpdate may emit
LiveIds == {KRAKEN_BTC_USD, KRAKEN_XXX_USD}
BatchIds == {KRAKEN_BTC_USD, KRAKEN_ETH_USD, KRAKEN_XXX_USD}
LivePrices == {10, 12}

(***************************************************************************)
(* State                                                                   *)
(***************************************************************************)
InitEngine ==
  /\ now \in StartTimes
  /\ elapsed = 0
  /\ fetchAndCacheHisto_caches = << >>
  /\ invs = [key \in Keys |-> << >>]
  /\ calls = [key \in Keys |-> << >>]
  /\ nCancel = [key \in Keys |-> 0]
  /\ db = [id \in StoredIds |-> DefaultPairExchangeData(id)]
  /\ pendingWrites = {}
  /\ buf = << >>
  /\ seenRaw = [id \in StoredIds \cup LiveIds |-> {}]
  /\ liveLog = << >>
  /\ emitted = 0
  /\ windows = << >>
  /\ uptime = 0
  /\ timers = {[at |-> 0, kind |-> "pullLoop", sub |-> 0, cause |-> "start", setAt |-> 0]}
  /\ subs = << >>
  /\ websocketTotal = 0
  /\ exited = FALSE
  /\ pairsThrottle = FreshThrottle
  /\ pairsInvs = << >>
  /\ reqs = << >>
  /\ exchangesThrottle = FreshThrottle
  /\ exchangesInvs = << >>
  /\ dbExchanges = {}
  /\ BLACKLIST_EXCHANGES = <<"">>
  /\ prefetch = NoJob
  /\ syncJob = NoJob
  /\ marketcapThrottle = FreshThrottle
  /\ marketcapInvs = << >>
  /\ dbMarketcap = << >>
  /\ capWrites = {}
  /\ grown = 0
  /\ probe = NoProbe
  /\ asked \in Granularities

Init == InitEngine /\ feed \in Feeds

envVars == <<asked, feed, BLACKLIST_EXCHANGES>>
jobVars == <<prefetch, syncJob, marketcapThrottle, marketcapInvs, dbMarketcap, capWrites, grown, probe>>
refreshVars == <<fetchAndCacheHisto_caches, invs, calls, nCancel>>
liveVars == <<buf, liveLog, emitted, windows>>
supVars == <<uptime, timers, subs, websocketTotal, exited, pairsThrottle, pairsInvs>>
readVars == <<reqs, exchangesThrottle, exchangesInvs, dbExchanges>>
engineVars == <<now, elapsed, refreshVars, db, pendingWrites, seenRaw, liveVars, envVars,
                jobVars>>

throttleOf(key) ==
  IF key \in DOMAIN fetchAndCacheHisto_caches
    THEN fetchAndCacheHisto_caches[key]
    ELSE FreshThrottle

RECURSIVE SumLen(_, _)
SumLen(f, S) ==
  IF S = {} THEN 0
  ELSE LET x == CHOOSE y \in S : TRUE IN Len(f[x]) + SumLen(f, S \ {x})

\* the inputs the engine has been given so far: calls and price updates
inputs == SumLen(calls, DOMAIN calls) + emitted

\* the store reads and provider calls that have rejected so far
faults ==
  SumLen([key \in DOMAIN invs |->
            SelectSeq(invs[key], LAMBDA inv :
                        inv.outcome = "rejected" \/ inv.provider = "failed")], DOMAIN invs)

\* the async action of fetchAndCacheHisto_makeThrottle, as started at the
\* clock `time`: it has read the clock and awaits db.queryPairExchangeById
newInvocation(key, time, kind) ==
  [start |-> time, kind |-> kind, nc |-> nCancel[key],
   pc |-> "query", outcome |-> "pending", value |-> NoValue,
   nowKey |-> formatTime(time, key[2]), fetchNow |-> NoTime,
   cached |-> NoValue, provider |-> "none", issued |-> << >>, rejected |-> {}]

(***************************************************************************)
(* Clock and timers                                                        *)
(***************************************************************************)
\* time passes: a timer that is due runs before the clock moves on, and
\* what is in flight (a store read, a provider call with its 30 to 60 s
\* timeout, a store write, a one-second buffer window) ends within the
\* clock step it began in
Tick ==
  /\ elapsed < MaxTicks
  /\ pendingWrites = {}
  /\ buf = << >>
  /\ \A key \in Keys : \A k \in 1..Len(invs[key]) : invs[key][k].pc = "done"
  /\ \A key \in DOMAIN fetchAndCacheHisto_caches :
       LET th == fetchAndCacheHisto_caches[key]
       IN  th.timerId = NoTime \/ now < th.timerId
  /\ \E d \in Steps : now' = now + d
  /\ elapsed' = elapsed + 1
  /\ UNCHANGED <<refreshVars, db, pendingWrites, seenRaw, liveVars, envVars, jobVars, supVars, readVars>>

(***************************************************************************)
(* cache.js fetchAndCacheHisto                                             *)
(***************************************************************************)
\* f() of fetchAndCacheHisto(id, granularity): the call of the cached
\* throttle, made on first use
fetchAndCacheHisto_f(id, granularity) ==
  LET key == <<id, granularity>>
      inv == Len(invs[key]) + 1
      th == debounced(throttleOf(key), now, throttles.fetchHisto, inv)
      invoked == th.result = inv
  IN  /\ fetchAndCacheHisto_caches' = (key :> th) @@ fetchAndCacheHisto_caches
      /\ invs' = IF invoked
                   THEN [invs EXCEPT ![key] = Append(@, newInvocation(key, now, "leading"))]
                   ELSE invs
      /\ calls' = [calls EXCEPT ![key] = Append(@,
           [t |-> now, res |-> th.result, started |-> invoked,
            nc |-> nCancel[key], ninv |-> Len(invs'[key]),
            handed |-> IF invoked THEN "pending" ELSE invs[key][th.result].outcome])]

\* a caller of the engine calls fetchAndCacheHisto(id, granularity)
fetchAndCacheHisto(id, granularity) ==
  /\ inputs < MaxInputs
  /\ fetchAndCacheHisto_f(id, granularity)
  /\ UNCHANGED <<now, elapsed, nCancel, db, pendingWrites, seenRaw, liveVars, envVars, jobVars, supVars, readVars>>

\* the throttle's timer runs timerExpired
TimerFires(key) ==
  /\ key \in DOMAIN fetchAndCacheHisto_caches
  /\ fetchAndCacheHisto_caches[key].timerId # NoTime
  /\ now >= fetchAndCacheHisto_caches[key].timerId
  /\ LET inv == Len(invs[key]) + 1
         th == timerExpired(fetchAndCacheHisto_caches[key], now, throttles.fetchHisto, inv)
     IN  /\ fetchAndCacheHisto_caches' = [fetchAndCacheHisto_caches EXCEPT ![key] = th]
         /\ invs' = IF th.result = inv
                      THEN [invs EXCEPT ![key] = Append(@, newInvocation(key, now, "trailing"))]
                      ELSE invs
  /\ UNCHANGED <<now, elapsed, calls, nCancel, db, pendingWrites, seenRaw, liveVars, envVars, jobVars, supVars, readVars>>

\* db.queryPairExchangeById answers invocation k of key
QueryDone(key, k) ==
  /\ k \in 1..Len(invs[key])
  /\ invs[key][k].pc = "query"
  /\ LET id == key[1]
         granularity == key[2]
         inv == invs[key][k]
     IN  invs' = [invs EXCEPT ![key][k] =
           IF id \notin DOMAIN db
             THEN [inv EXCEPT !.pc = "done", !.outcome = "resolved",
                              !.value = UndefinedValue]
           ELSE IF db[id][historyLoadedAtField(granularity)] = inv.nowKey
             THEN [inv EXCEPT !.pc = "done", !.outcome = "resolved",
                              !.value = HistoValue(db[id][histoField(granularity)])]
           ELSE [inv EXCEPT !.pc = "fetch", !.fetchNow = now, !.provider = "pending",
                            !.cached = HistoValue(db[id][histoField(granularity)])]]
  /\ UNCHANGED <<now, elapsed, fetchAndCacheHisto_caches, calls, nCancel, db,
                 pendingWrites, seenRaw, liveVars, envVars, jobVars, supVars, readVars>>

\* db.queryPairExchangeById rejects: the action rejects, and the catch of
\* promiseThrottle cancels the throttle and rethrows
QueryFail(key, k) ==
  /\ faults < MaxFaults
  /\ k \in 1..Len(invs[key])
  /\ invs[key][k].pc = "query"
  /\ invs' = [invs EXCEPT ![key][k] = [@ EXCEPT !.pc = "done", !.outcome = "rejected"]]
  /\ fetchAndCacheHisto_caches' =
       [fetchAndCacheHisto_caches EXCEPT ![key] = cancel(@)]
  /\ nCancel' = [nCancel EXCEPT ![key] = @ + 1]
  /\ UNCHANGED <<now, elapsed, calls, db, pendingWrites, seenRaw, liveVars, envVars, jobVars, supVars, readVars>>

statsWrite(id, stats, by) ==
  [op |-> "updatePairExchangeStats", id |-> id, granularity |-> "daily",
   histo |-> {}, stats |-> stats, rates |-> << >>, by |-> by]

histoWrite(id, granularity, histo, by) ==
  [op |-> "updateHisto", id |-> id, granularity |-> granularity,
   histo |-> histo, stats |-> Null, rates |-> << >>, by |-> by]

\* provider.fetchHistoSeries resolves with `series`: fetchHisto builds the
\* histo, calls syncPairStats (daily only, not awaited), then the action
\* calls db.updateHisto (not awaited) and resolves with the histo
FetchDone(key, k) ==
  /\ k \in 1..Len(invs[key])
  /\ invs[key][k].pc = "fetch"
  /\ LET series == seriesOf(feed, invs[key][k].fetchNow, key[2])
           id == key[1]
           inv == invs[key][k]
           r == fetchHisto(id, key[2], series, inv.fetchNow, now)
           by == <<key, k>>
       IN  /\ seenRaw' = [seenRaw EXCEPT ![id] =
                            @ \cup {series[i].close : i \in 1..Len(series)}]
           /\ IF r.throws
                THEN /\ invs' = [invs EXCEPT ![key][k] =
                           [inv EXCEPT !.pc = "done", !.outcome = "resolved",
                                       !.provider = "answered", !.value = inv.cached]]
                     /\ UNCHANGED pendingWrites
                ELSE /\ invs' = [invs EXCEPT ![key][k] =
                           [inv EXCEPT !.pc = "done", !.outcome = "resolved",
                                       !.provider = "answered",
                                       !.value = HistoValue(r.histo),
                                       !.issued =
                                         (IF r.stats # Null
                                            THEN <<"updatePairExchangeStats">>
                                            ELSE << >>) \o <<"updateHisto">>]]
                     /\ pendingWrites' = pendingWrites
                          \cup (IF r.stats # Null
                                  THEN {statsWrite(id, r.stats, by)} ELSE {})
                          \cup {histoWrite(id, key[2], r.histo, by)}
  /\ UNCHANGED <<now, elapsed, fetchAndCacheHisto_caches, calls, nCancel, db,
                 liveVars, envVars, jobVars, supVars, readVars>>

FetchFail_rejects(key, k) ==
  /\ faults < MaxFaults
  /\ k \in 1..Len(invs[key])
  /\ invs[key][k].pc = "fetch"
  /\ invs' = [invs EXCEPT ![key][k] =
       [@ EXCEPT !.pc = "done", !.outcome = "rejected", !.provider = "failed"]]
  /\ fetchAndCacheHisto_caches' =
       [fetchAndCacheHisto_caches EXCEPT ![key] = cancel(@)]
  /\ nCancel' = [nCancel EXCEPT ![key] = @ + 1]
  /\ UNCHANGED <<now, elapsed, calls, db, pendingWrites, seenRaw, liveVars, envVars, jobVars, supVars, readVars>>

\* provider.fetchHistoSeries rejects: the catch of the action logs and
\* returns the histo of the document it read
FetchFail(key, k) ==
  /\ faults < MaxFaults
  /\ k \in 1..Len(invs[key])
  /\ invs[key][k].pc = "fetch"
  /\ LET inv == invs[key][k]
     IN  invs' = [invs EXCEPT ![key][k] =
           [inv EXCEPT !.pc = "done", !.outcome = "resolved",
                       !.provider = "failed", !.value = inv.cached]]
  /\ UNCHANGED <<now, elapsed, fetchAndCacheHisto_caches, calls, nCancel, db,
                 pendingWrites, seenRaw, liveVars, envVars, jobVars, supVars, readVars>>


(***************************************************************************)
(* The store (db/mongodb.js): the writes the engine issues and leaves in   *)
(* flight                                                                  *)
(***************************************************************************)
\* an update that replaces the document by the stats over the default
\* document
updatePairExchangeStats_replaces(d, id, stats) ==
  IF id \in DOMAIN d THEN [d EXCEPT ![id] = stats @@ DefaultPairExchangeData(id)] ELSE d

\* updateOne({ id }, { $set: stats })
updatePairExchangeStats(d, id, stats) ==
  IF id \in DOMAIN d THEN [d EXCEPT ![id] = stats @@ @] ELSE d

\* replaces that granularity's histo wholesale
updateHisto(d, id, granularity, histo) ==
  IF id \in DOMAIN d
    THEN [d EXCEPT ![id] = (histoField(granularity) :> histo) @@ @]
    ELSE d

\* updateOne({ id }, { $set: { latest, latestDate: new Date() } }) per item
RECURSIVE updateLiveRates(_, _, _)
updateLiveRates(d, all, time) ==
  IF all = << >> THEN d
  ELSE LET item == Head(all)
           d1 == IF item.pairExchangeId \in DOMAIN d
                   THEN [d EXCEPT ![item.pairExchangeId] =
                          [latest |-> item.price, latestDate |-> DateOf(time)] @@ @]
                   ELSE d
       IN  updateLiveRates(d1, Tail(all), time)

liveWrite(rates, by) ==
  [op |-> "updateLiveRates", id |-> << >>, granularity |-> "daily",
   histo |-> {}, stats |-> Null, rates |-> rates, by |-> by]

\* a write in flight reaches the collection
DbApply ==
  \E w \in pendingWrites :
    /\ pendingWrites' = pendingWrites \ {w}
    /\ db' = CASE w.op = "updatePairExchangeStats" ->
                    updatePairExchangeStats(db, w.id, w.stats)
               [] w.op = "updateHisto" ->
                    updateHisto(db, w.id, w.granularity, w.histo)
               [] w.op = "updateLiveRates" ->
                    updateLiveRates(db, w.rates, now)
    /\ UNCHANGED <<now, elapsed, refreshVars, seenRaw, liveVars, envVars, jobVars, supVars, readVars>>

\* a write of a refresh in flight is rejected by the store: nobody awaits
\* db.updateHisto or syncPairStats, nothing is stored
DbFail ==
  \E w \in pendingWrites :
    /\ w.op \in {"updatePairExchangeStats", "updateHisto"}
    /\ pendingWrites' = pendingWrites \ {w}
    /\ invs' = [invs EXCEPT ![w.by[1]][w.by[2]].rejected = @ \cup {w.op}]
    /\ UNCHANGED <<now, elapsed, fetchAndCacheHisto_caches, calls, nCancel, db, seenRaw,
                   liveVars, envVars, jobVars, supVars, readVars>>

(***************************************************************************)
(* cache.js pullLiveRates                                                  *)
(***************************************************************************)
RECURSIVE ratesPerId_keepsAll(_, _)
ratesPerId_keepsAll(buffer, acc) ==
  IF buffer = << >> THEN acc
  ELSE LET msg == Head(buffer)
           pe == pairExchangeFromId(msg.pairExchangeId)
           rate == convertToCentSatRate(pe.from, pe.to, Num(msg.price))
       IN  ratesPerId_keepsAll(Tail(buffer),
             IF supportTicker(pe.from) /\ supportTicker(pe.to)
               THEN Append(acc, [pairExchangeId |-> pe.id, price |-> rate])
               ELSE acc)

\* ratesPerId after the loop over the buffer, as the list of its keys in
\* insertion order with their last value
RECURSIVE ratesPerId(_, _)
ratesPerId(buffer, acc) ==
  IF buffer = << >> THEN acc
  ELSE LET msg == Head(buffer)
           pe == pairExchangeFromId(msg.pairExchangeId)
           rate == convertToCentSatRate(pe.from, pe.to, Num(msg.price))
           at == {i \in 1..Len(acc) : acc[i].pairExchangeId = pe.id}
           acc1 == IF ~(supportTicker(pe.from) /\ supportTicker(pe.to)) THEN acc
                   ELSE IF at = {}
                     THEN Append(acc, [pairExchangeId |-> pe.id, price |-> rate])
                   ELSE [i \in 1..Len(acc) |->
                           IF i \in at THEN [acc[i] EXCEPT !.price = rate] ELSE acc[i]]
       IN  ratesPerId(Tail(buffer), acc1)

\* the provider's stream emits a PriceUpdate into the open buffer window
PriceUpdate(id, price) ==
  /\ inputs < MaxInputs
  /\ buf' = Append(buf, [pairExchangeId |-> id, price |-> price])
  /\ emitted' = emitted + 1
  /\ seenRaw' = [seenRaw EXCEPT ![id] = @ \cup {price}]
  /\ UNCHANGED <<now, elapsed, refreshVars, db, pendingWrites, liveLog, windows, envVars, jobVars, supVars, readVars>>

\* bufferTime closes the window and hands the batch to the subscriber
BufferFlush ==
  /\ buf' = << >>
  /\ IF Len(buf) = 0
       THEN UNCHANGED <<pendingWrites, liveLog, windows>>
       ELSE LET liveRates == ratesPerId(buf, << >>)
            IN  /\ liveLog' = Append(liveLog, liveRates)
                /\ windows' = Append(windows, buf)
                /\ pendingWrites' = pendingWrites
                     \cup {liveWrite(liveRates, <<"live", Len(liveLog) + 1>>)}
  /\ UNCHANGED <<now, elapsed, refreshVars, db, seenRaw, emitted, envVars, jobVars, supVars, readVars>>

(***************************************************************************)
(* sync.js pullLoop, cache.js $priceUpdates, providers subscribePriceUpdate *)
(* Durations are in seconds of uptime.                                     *)
(***************************************************************************)
rebootTimeIfError == 60
rebootTimeIfComplete == 30
autoRebootHangTime == 10
autoRebootInterval == 14400
MAX_WEBSOCKET == 2

\* throttles.fetchPairExchanges in seconds
pairsWait == throttles.fetchPairExchanges * 60

\* the instants at which something is scheduled to run
Deadlines ==
  {t.at : t \in timers}
    \cup (IF pairsThrottle.timerId = NoTime THEN {} ELSE {pairsThrottle.timerId})

Earliest(at) == \A d \in Deadlines : at <= d

pairFaults ==
  Cardinality({k \in 1..Len(pairsInvs) : pairsInvs[k].outcome = "rejected"})

\* the streams that ended on their own: provider error message, remote close
streamEnds ==
  Cardinality({n \in 1..Len(subs) : subs[n].endedBy \in {"error", "close"}})

\* the refresh of the pair-exchanges and a socket's closing handshake end
\* before the next timer runs
Settled ==
  /\ \A k \in 1..Len(pairsInvs) : pairsInvs[k].outcome # "pending"
  /\ \A n \in 1..Len(subs) :
       /\ subs[n].pc = "refresh" => subs[n].stopped
       /\ subs[n].ws # "closing"

setTimeout(kind, n, cause, at, delay) ==
  [at |-> at + delay, kind |-> kind, sub |-> n, cause |-> cause, setAt |-> at]

\* the unsubscribe() returned by subscribePriceUpdate, run as the teardown
\* of the subscription: done = true; ws.close()
teardown(sub) ==
  IF sub.ws = "none" THEN sub
  ELSE [sub EXCEPT !.done = TRUE, !.closeReq = @ + 1,
                   !.ws = IF @ \in {"connecting", "open"} THEN "closing" ELSE @]

\* a timer runs pullLoop: pullLiveRates subscribes, which calls the throttled
\* fetchAndCacheAvailablePairExchanges, and the auto-reboot timer is set
pullLoop(t) ==
  /\ ~exited
  /\ t \in timers /\ t.kind = "pullLoop" /\ Earliest(t.at)
  /\ Settled
  /\ Len(subs) < MaxLaunches
  /\ LET inv == Len(pairsInvs) + 1
         th == debounced(pairsThrottle, t.at, pairsWait, inv)
         n == Len(subs) + 1
     IN  /\ uptime' = t.at
         /\ pairsThrottle' = th
         /\ pairsInvs' = IF th.result = inv
                           THEN Append(pairsInvs, [start |-> t.at, outcome |-> "pending"])
                           ELSE pairsInvs
         /\ subs' = Append(subs,
              [launchedAt |-> t.at, cause |-> t.cause, pc |-> "refresh",
               await |-> th.result, stopped |-> FALSE, handler |-> "none",
               endedBy |-> "none", ws |-> "none", done |-> FALSE,
               closeReq |-> 0, dec |-> 0])
         /\ timers' = (timers \ {t})
              \cup {setTimeout("autoReboot", n, "reboot", t.at, autoRebootInterval)}
  /\ UNCHANGED <<websocketTotal, exited, engineVars, readVars>>

\* the timer of the pair-exchanges throttle runs timerExpired
PairsTimerFires ==
  /\ ~exited
  /\ pairsThrottle.timerId # NoTime /\ Earliest(pairsThrottle.timerId)
  /\ Settled
  /\ LET inv == Len(pairsInvs) + 1
         at == pairsThrottle.timerId
         th == timerExpired(pairsThrottle, at, pairsWait, inv)
     IN  /\ uptime' = at
         /\ pairsThrottle' = th
         /\ pairsInvs' = IF th.result = inv
                           THEN Append(pairsInvs, [start |-> at, outcome |-> "pending"])
                           ELSE pairsInvs
  /\ UNCHANGED <<timers, subs, websocketTotal, exited, engineVars, readVars>>

\* what provider.fetchAvailablePairExchanges() resolves with
ProviderPairExchanges ==
  {KRAKEN_BTC_USD, BITSTAMP_BTC_USD, KRAKEN_ETH_USD}

\* an insert that replaces the document of an id already stored
insertPairExchangeData_upsert(d, pairExchanges) ==
  [id \in DOMAIN d \cup {doc.id : doc \in pairExchanges} |->
     IF \E doc \in pairExchanges : doc.id = id
       THEN CHOOSE doc \in pairExchanges : doc.id = id
       ELSE d[id]]

\* insertOne per document, the failure on the unique index of id dropped:
\* a document whose id is stored already is not inserted
insertPairExchangeData(d, pairExchanges) ==
  [id \in DOMAIN d \cup {doc.id : doc \in pairExchanges} |->
     IF id \in DOMAIN d
       THEN d[id]
       ELSE CHOOSE doc \in pairExchanges : doc.id = id]

\* provider.fetchAvailablePairExchanges and insertPairExchangeData succeed
PairsDone(k) ==
  /\ ~exited
  /\ k \in 1..Len(pairsInvs) /\ pairsInvs[k].outcome = "pending"
  /\ pairsInvs' = [pairsInvs EXCEPT ![k].outcome = "resolved"]
  /\ db' = insertPairExchangeData(db,
              {DefaultPairExchangeData(id) : id \in ProviderPairExchanges})
  /\ UNCHANGED <<uptime, timers, subs, websocketTotal, exited, pairsThrottle,
                 now, elapsed, refreshVars, pendingWrites, seenRaw, liveVars,
                 envVars, jobVars, readVars>>

\* the refresh rejects: promiseThrottle cancels the throttle and rethrows
PairsFail(k) ==
  /\ ~exited
  /\ pairFaults < MaxFaults
  /\ k \in 1..Len(pairsInvs) /\ pairsInvs[k].outcome = "pending"
  /\ pairsInvs' = [pairsInvs EXCEPT ![k].outcome = "rejected"]
  /\ pairsThrottle' = cancel(pairsThrottle)
  /\ UNCHANGED <<uptime, timers, subs, websocketTotal, exited, engineVars, readVars>>

\* a pipeline that subscribes to the provider as soon as the refresh has
\* settled, resolved or not
Subscribed_eager(n) ==
  /\ ~exited
  /\ n \in 1..Len(subs)
  /\ subs[n].pc = "refresh" /\ ~subs[n].stopped
  /\ pairsInvs[subs[n].await].outcome # "pending"
  /\ IF websocketTotal >= MAX_WEBSOCKET
       THEN exited' = TRUE /\ UNCHANGED <<subs, websocketTotal>>
       ELSE /\ websocketTotal' = websocketTotal + 1
            /\ subs' = [subs EXCEPT ![n] = [@ EXCEPT !.pc = "socket", !.ws = "connecting"]]
            /\ UNCHANGED exited
  /\ UNCHANGED <<uptime, timers, pairsThrottle, pairsInvs, engineVars, readVars>>

\* the refresh has resolved: mergeMap subscribes to
\* provider.subscribePriceUpdate(), which exits the process when
\* MAX_WEBSOCKET sockets are counted, else counts and creates one
Subscribed(n) ==
  /\ ~exited
  /\ n \in 1..Len(subs)
  /\ subs[n].pc = "refresh" /\ ~subs[n].stopped
  /\ pairsInvs[subs[n].await].outcome = "resolved"
  /\ IF websocketTotal >= MAX_WEBSOCKET
       THEN exited' = TRUE /\ UNCHANGED <<subs, websocketTotal>>
       ELSE /\ websocketTotal' = websocketTotal + 1
            /\ subs' = [subs EXCEPT ![n] = [@ EXCEPT !.pc = "socket", !.ws = "connecting"]]
            /\ UNCHANGED exited
  /\ UNCHANGED <<uptime, timers, pairsThrottle, pairsInvs, engineVars, readVars>>

\* the refresh has rejected: the error reaches pullLoop's error callback
RefreshRejected(n) ==
  /\ ~exited
  /\ n \in 1..Len(subs)
  /\ subs[n].pc = "refresh" /\ ~subs[n].stopped
  /\ pairsInvs[subs[n].await].outcome = "rejected"
  /\ subs' = [subs EXCEPT ![n] =
       [@ EXCEPT !.pc = "ended", !.stopped = TRUE, !.handler = "error",
                 !.endedBy = "refresh"]]
  /\ timers' = timers \cup {setTimeout("pullLoop", n, "error", uptime, rebootTimeIfError)}
  /\ UNCHANGED <<uptime, websocketTotal, exited, pairsThrottle, pairsInvs,
                 engineVars, readVars>>

\* ws.on("open")
SocketOpen(n) ==
  /\ ~exited
  /\ n \in 1..Len(subs)
  /\ subs[n].ws = "connecting"
  /\ subs' = [subs EXCEPT ![n] =
       IF @.done THEN [@ EXCEPT !.closeReq = @ + 1, !.ws = "closing"]
       ELSE [@ EXCEPT !.ws = "open"]]
  /\ UNCHANGED <<uptime, timers, websocketTotal, exited, pairsThrottle, pairsInvs,
                 engineVars, readVars>>

\* ws.on("message") with r.type === "error": o.error(r.message) calls the
\* error callback and runs the teardown, then ws.close() is called
StreamError(n) ==
  /\ ~exited
  /\ streamEnds < MaxStreamEnds
  /\ n \in 1..Len(subs)
  /\ subs[n].ws = "open" /\ ~subs[n].done
  /\ subs' = [subs EXCEPT ![n] =
       LET torn == teardown([@ EXCEPT !.pc = "ended", !.stopped = TRUE,
                                      !.handler = "error", !.endedBy = "error"])
       IN  [torn EXCEPT !.closeReq = @ + 1]]
  /\ timers' = timers \cup {setTimeout("pullLoop", n, "error", uptime, rebootTimeIfError)}
  /\ UNCHANGED <<uptime, websocketTotal, exited, pairsThrottle, pairsInvs,
                 engineVars, readVars>>

\* the remote end closes an open socket: ws.on("close") sets done, calls
\* o.complete() (the complete callback, then the teardown) and uncounts
RemoteClose(n) ==
  /\ ~exited
  /\ streamEnds < MaxStreamEnds
  /\ n \in 1..Len(subs)
  /\ subs[n].ws = "open"
  /\ subs' = [subs EXCEPT ![n] =
       teardown([@ EXCEPT !.pc = "ended", !.stopped = TRUE, !.handler = "complete",
                          !.endedBy = "close", !.ws = "closed", !.done = TRUE,
                          !.dec = @ + 1])]
  /\ websocketTotal' = websocketTotal - 1
  /\ timers' = timers \cup {setTimeout("pullLoop", n, "complete", uptime, rebootTimeIfComplete)}
  /\ UNCHANGED <<uptime, exited, pairsThrottle, pairsInvs, engineVars, readVars>>

\* ws.on("close") after a close was requested: the subscriber is stopped
\* already, o.complete() does nothing
SocketClosed(n) ==
  /\ ~exited
  /\ n \in 1..Len(subs)
  /\ subs[n].ws = "closing"
  /\ subs' = [subs EXCEPT ![n] =
       [@ EXCEPT !.ws = "closed", !.done = TRUE, !.dec = @ + 1]]
  /\ websocketTotal' = websocketTotal - 1
  /\ UNCHANGED <<uptime, timers, exited, pairsThrottle, pairsInvs, engineVars, readVars>>

\* the auto-reboot timer of run t.sub: sub.unsubscribe(), then pullLoop is
\* scheduled
autoReboot(t) ==
  /\ ~exited
  /\ t \in timers /\ t.kind = "autoReboot" /\ Earliest(t.at)
  /\ Settled
  /\ uptime' = t.at
  /\ subs' = [subs EXCEPT ![t.sub] =
       IF @.stopped THEN @
       ELSE teardown([@ EXCEPT !.pc = "ended", !.stopped = TRUE,
                               !.endedBy = "unsubscribe"])]
  /\ timers' = (timers \ {t})
       \cup {setTimeout("pullLoop", t.sub, "reboot", t.at, autoRebootHangTime)}
  /\ UNCHANGED <<websocketTotal, exited, pairsThrottle, pairsInvs, engineVars, readVars>>

(***************************************************************************)
(* The read operations: db/mongodb.js queries, cache.js getHistoRequest    *)
(* and getExchanges                                                        *)
(***************************************************************************)
\* the pair-exchanges the read operations are asked about, and what the
\* provider lists: both are stored already
ReadIds == {KRAKEN_BTC_USD, BITSTAMP_BTC_USD}

\* what provider.fetchExchanges() resolves with
ProviderExchanges ==
  {[id |-> "KRAKEN", name |-> "Kraken"], [id |-> "BITSTAMP", name |-> "Bitstamp"]}

\* String.prototype.toLowerCase on the exchange ids of the model
toLowerCase(str) ==
  CASE str = "KRAKEN" -> "kraken"
    [] str \in {"BITSTAMP", "BitStamp"} -> "bitstamp"
    [] OTHER -> str

\* (process.env.BLACKLIST_EXCHANGES || "").toLowerCase().split(","): one
\* empty entry when the variable is not set
blacklist == {toLowerCase(BLACKLIST_EXCHANGES[i]) : i \in DOMAIN BLACKLIST_EXCHANGES}

\* an exchange compared with the blacklist as it is written in the store
isAcceptedExchange_caseSensitive(exchangeId) == exchangeId \notin blacklist

isAcceptedExchange(exchangeId) == toLowerCase(exchangeId) \notin blacklist

filterPairExchanges(all) == SelectSeq(all, LAMBDA o : isAcceptedExchange(o.exchange))

\* cursor.sort({ yesterdayVolume: -1 }) then toArray: the orders of the
\* documents of `docs` the store may answer with; the order of documents of
\* equal volume is the store's
queryPairExchangesSortCursor(docs) ==
  {order \in [1..Cardinality(docs) -> docs] :
     /\ \A i, j \in DOMAIN order : i # j => order[i] # order[j]
     /\ \A i, j \in DOMAIN order : i < j =>
          order[i].yesterdayVolume >= order[j].yesterdayVolume}

\* find({ from_to: { $in: [...] } })
queryPairExchangesByPairs(d, pairs) ==
  queryPairExchangesSortCursor(
    {d[id] : id \in {i \in DOMAIN d : <<d[i].from, d[i].to>> \in pairs}})

\* find({ from, to }), with hasHistoryFor30LastDays: true when
\* opts.filterWithHistory
queryPairExchangesByPair(d, pair, filterWithHistory) ==
  queryPairExchangesSortCursor(
    {d[id] : id \in {i \in DOMAIN d :
       /\ d[i].from = pair[1] /\ d[i].to = pair[2]
       /\ filterWithHistory => d[i].hasHistoryFor30LastDays}})

\* candidates that keep every record of the pair, whatever its history
pairExchangeCandidates_anyHistory(pairExchanges, from, to) ==
  SelectSeq(pairExchanges, LAMBDA o : o.from = from /\ o.to = to)

\* pairExchanges.filter(s => s.from === from && s.to === to &&
\* s.hasHistoryFor30LastDays)
pairExchangeCandidates(pairExchanges, from, to) ==
  SelectSeq(pairExchanges,
            LAMBDA o : o.from = from /\ o.to = to /\ o.hasHistoryFor30LastDays)

\* exchange ? candidates.find(s => s.exchange === exchange) : candidates[0];
\* undefined is Null
selectPairExchange(candidates, exchange) ==
  LET named == SelectSeq(candidates, LAMBDA o : o.exchange = exchange)
      found == IF exchange # "" THEN named ELSE candidates
  IN  IF found = << >> THEN Null ELSE Head(found)

\* a call of the throttled fetchAndCacheAvailablePairExchanges at `time`:
\* the throttle after the call and the invocations
pairsCall(time) ==
  LET inv == Len(pairsInvs) + 1
      th == debounced(pairsThrottle, time, pairsWait, inv)
  IN  [th |-> th,
       invs |-> IF th.result = inv
                  THEN Append(pairsInvs, [start |-> time, outcome |-> "pending"])
                  ELSE pairsInvs]

NoResponse == [tag |-> "none"]

\* the requests made so far have been answered: the model takes the
\* requests one after the other
Answered == \A r \in 1..Len(reqs) : reqs[r].pc = "done"

\* the `at` of a request pair: absent, or the keys it lists
NoAt == [given |-> FALSE, keys |-> {}]
At(keys) == [given |-> TRUE, keys |-> keys]

newRequest(kind, exchange) ==
  [kind |-> kind, from |-> "BTC", to |-> "USD", exchange |-> exchange,
   after |-> Null, at |-> NoAt,
   pc |-> "start", pairsAwait |-> 0, exchangesAwait |-> 0, exchanges |-> {},
   queried |-> << >>, chosen |-> Null, call |-> 0, failed |-> FALSE,
   response |-> NoResponse]

\* key > after on the strings of the keys: dated keys of one granularity
\* compare as their dates, and "latest" is greater than every dated key
keyGreater(key, after) ==
  IF key = LatestKey THEN after # LatestKey
  ELSE IF after = LatestKey THEN FALSE
  ELSE key[2] > after[2]

\* a filter that keeps the key `after` itself
keepsKey_inclusive(key, after, at) ==
  IF at.given THEN key \in at.keys
  ELSE after = Null \/ key = after \/ keyGreater(key, after)

\* at ? at.includes(key) : !after || key > after
keepsKey(key, after, at) ==
  IF at.given THEN key \in at.keys
  ELSE after = Null \/ keyGreater(key, after)

\* getHistoRequest([{ from: "BTC", to: "USD", exchange, after, at }],
\* granularity), after being Null and at NoAt when absent:
\* getPairExchangesForPairs calls the throttled refresh of the
\* pair-exchanges and awaits it
getHistoRequest(exchange, after, at) ==

  /\ Len(reqs) < MaxRequests
  /\ Answered
  /\ LET c == pairsCall(now * 60)
     IN  /\ pairsThrottle' = c.th
         /\ pairsInvs' = c.invs
         /\ reqs' = Append(reqs, [newRequest("histo", exchange) EXCEPT
                             !.pc = "pairs", !.pairsAwait = c.th.result,
                             !.after = after, !.at = at])
  /\ UNCHANGED <<uptime, timers, subs, websocketTotal, exited, exchangesThrottle,
                 exchangesInvs, dbExchanges, engineVars>>

\* the refresh has settled, a rejection is caught and logged: the pairs are
\* queried and filtered, the pair-exchange is selected, and
\* fetchAndCacheHisto is called for it; without a pair-exchange the
\* response is empty
HistoPairsQueried(r) ==
  /\ r \in 1..Len(reqs)
  /\ reqs[r].kind = "histo" /\ reqs[r].pc = "pairs"
  /\ pairsInvs[reqs[r].pairsAwait].outcome # "pending"
  /\ \E docs \in queryPairExchangesByPairs(db, {<<reqs[r].from, reqs[r].to>>}) :
       LET pairExchanges == filterPairExchanges(docs)
           candidates == pairExchangeCandidates(pairExchanges, reqs[r].from, reqs[r].to)
           pairExchange == selectPairExchange(candidates, reqs[r].exchange)
       IN  IF pairExchange = Null
             THEN /\ reqs' = [reqs EXCEPT ![r] =
                       [@ EXCEPT !.pc = "done", !.queried = docs,
                                 !.response = [tag |-> "histo", pairs |-> {}]]]
                  /\ UNCHANGED refreshVars
             ELSE /\ fetchAndCacheHisto_f(pairExchange.id, asked)
                  /\ reqs' = [reqs EXCEPT ![r] =
                       [@ EXCEPT !.pc = "histo", !.queried = docs,
                                 !.chosen = pairExchange,
                                 !.call = Len(calls[<<pairExchange.id, asked>>]) + 1]]
                  /\ UNCHANGED nCancel
  /\ UNCHANGED <<now, elapsed, db, pendingWrites, seenRaw, liveVars, envVars, jobVars, supVars,
                 exchangesThrottle, exchangesInvs, dbExchanges>>

\* what the call of fetchAndCacheHisto of request r was handed: the
\* invocation of the throttled action, 0 when the throttle returned
\* undefined
histoInvocation(r) ==
  LET key == <<reqs[r].chosen.id, asked>>
      res == calls[key][reqs[r].call].res
  IN  IF res = 0
        THEN [pc |-> "done", outcome |-> "resolved", value |-> UndefinedValue,
              provider |-> "none"]
        ELSE invs[key][res]

\* the promise of fetchAndCacheHisto has settled: its histo goes to the
\* response with latest of the selected document, or its rejection is the
\* rejection of getHistoRequest
HistoSettled(r) ==
  /\ r \in 1..Len(reqs)
  /\ reqs[r].kind = "histo" /\ reqs[r].pc = "histo"
  /\ LET inv == histoInvocation(r)
         pairExchange == reqs[r].chosen
     IN  /\ inv.pc = "done"
         /\ reqs' = [reqs EXCEPT ![r] =
              IF inv.outcome = "rejected"
                THEN [@ EXCEPT !.pc = "done", !.failed = TRUE]
                ELSE [@ EXCEPT !.pc = "done",
                        !.response =
                          [tag |-> "histo",
                           pairs |-> {[to |-> pairExchange.to, from |-> pairExchange.from,
                                       exchange |-> pairExchange.exchange,
                                       pairResult |->
                                         histoSet({x \in inv.value.h :
                                                     keepsKey(x.k, reqs[r].after, reqs[r].at)},
                                                  LatestKey, pairExchange.latest)]}]]]
  /\ UNCHANGED <<exchangesThrottle, exchangesInvs, dbExchanges, supVars, engineVars>>

\* getExchanges({ pair: BTC/USD }): the throttled refresh of the exchanges
\* is called and awaited
getExchanges ==
  /\ Len(reqs) < MaxRequests
  /\ Answered
  /\ LET inv == Len(exchangesInvs) + 1
         th == debounced(exchangesThrottle, now * 60, throttles.fetchExchanges * 60, inv)
     IN  /\ exchangesThrottle' = th
         /\ exchangesInvs' = IF th.result = inv
                               THEN Append(exchangesInvs, [start |-> now * 60, outcome |-> "pending"])
                               ELSE exchangesInvs
         /\ reqs' = Append(reqs, [newRequest("exchanges", "") EXCEPT
                             !.pc = "exchanges", !.exchangesAwait = th.result])
  /\ UNCHANGED <<dbExchanges, supVars, engineVars>>

\* updateOne({ id }, { $set: exchange }, { upsert: true }) per exchange
updateExchanges(stored, exchanges) ==
  {e \in stored : \A x \in exchanges : x.id # e.id} \cup exchanges

\* provider.fetchExchanges() resolves: the action stores the exchanges and
\* resolves with them
ExchangesDone(k) ==
  /\ k \in 1..Len(exchangesInvs)
  /\ exchangesInvs[k].outcome = "pending"
  /\ exchangesInvs' = [exchangesInvs EXCEPT ![k].outcome = "resolved"]
  /\ dbExchanges' = updateExchanges(dbExchanges, ProviderExchanges)
  /\ UNCHANGED <<reqs, exchangesThrottle, supVars, engineVars>>

\* the exchanges refreshes that have rejected so far
exchangesFaults ==
  Cardinality({k \in 1..Len(exchangesInvs) : exchangesInvs[k].outcome = "rejected"})

\* provider.fetchExchanges() rejects: the action rejects, and the catch of
\* promiseThrottle cancels the throttle and rethrows
ExchangesFail(k) ==
  /\ exchangesFaults < MaxFaults
  /\ k \in 1..Len(exchangesInvs)
  /\ exchangesInvs[k].outcome = "pending"
  /\ exchangesInvs' = [exchangesInvs EXCEPT ![k].outcome = "rejected"]
  /\ exchangesThrottle' = cancel(exchangesThrottle)
  /\ UNCHANGED <<reqs, dbExchanges, supVars, engineVars>>

\* the refresh of the exchanges has settled: its exchanges, or on a
\* rejection those of db.queryExchanges(), are kept, and
\* getPairExchangesForPair calls the refresh of the pair-exchanges
ExchangesSettled(r) ==
  /\ r \in 1..Len(reqs)
  /\ reqs[r].kind = "exchanges" /\ reqs[r].pc = "exchanges"
  /\ exchangesInvs[reqs[r].exchangesAwait].outcome # "pending"
  /\ LET c == pairsCall(now * 60)
         exchanges == IF exchangesInvs[reqs[r].exchangesAwait].outcome = "resolved"
                        THEN ProviderExchanges ELSE dbExchanges
     IN  /\ pairsThrottle' = c.th
         /\ pairsInvs' = c.invs
         /\ reqs' = [reqs EXCEPT ![r] =
              [@ EXCEPT !.pc = "pairs", !.pairsAwait = c.th.result,
                        !.exchanges = exchanges]]
  /\ UNCHANGED <<uptime, timers, subs, websocketTotal, exited, exchangesThrottle,
                 exchangesInvs, dbExchanges, engineVars>>

\* exchanges.find(e => e.id === s.exchange) || { id: s.exchange, name:
\* s.exchange, website: null }, reduced to { id, name }
exchangeEntry(exchanges, s) ==
  IF \E e \in exchanges : e.id = s.exchange
    THEN CHOOSE e \in exchanges : e.id = s.exchange
    ELSE [id |-> s.exchange, name |-> s.exchange]

\* the refresh of the pair-exchanges has settled, a rejection is caught
\* and logged: the pair-exchanges with history are queried, filtered and
\* mapped to their exchange
ExchangesPairsQueried(r) ==
  /\ r \in 1..Len(reqs)
  /\ reqs[r].kind = "exchanges" /\ reqs[r].pc = "pairs"
  /\ pairsInvs[reqs[r].pairsAwait].outcome # "pending"
  /\ \E docs \in queryPairExchangesByPair(db, <<reqs[r].from, reqs[r].to>>, TRUE) :
       LET pairExchanges == filterPairExchanges(docs)
       IN  reqs' = [reqs EXCEPT ![r] =
             [@ EXCEPT !.pc = "done", !.queried = docs,
                       !.response =
                         [tag |-> "exchanges",
                          list |-> [i \in DOMAIN pairExchanges |->
                                      exchangeEntry(reqs[r].exchanges, pairExchanges[i])]]]]
  /\ UNCHANGED <<exchangesThrottle, exchangesInvs, dbExchanges, supVars, engineVars>>

(***************************************************************************)
(* cache.js fetchDailyMarketCapCoins                                       *)
(***************************************************************************)
\* the wait of the throttle, 60000 ms, in minutes
marketcapWait == 1

capFrame == <<refreshVars, db, pendingWrites, seenRaw, liveVars, envVars, prefetch, syncJob,
              grown, probe, supVars, readVars>>

fiatTickers == {"USD"}
cryptoTickers == allTickers \ fiatTickers

\* the symbols the market-cap source may list, by rank
Rankings == {<<"BTC", "ETH">>, <<"ETH", "XXX", "BTC">>}

\* coinmarketcap.js tickersByMarketcap: the symbols listed that are known
\* crypto tickers, in the order listed
RECURSIVE tickersByMarketcap(_)
tickersByMarketcap(listing) ==
  IF listing = << >> THEN << >>
  ELSE (IF Head(listing) \in cryptoTickers THEN <<Head(listing)>> ELSE << >>)
         \o tickersByMarketcap(Tail(listing))

\* db.queryMarketCapCoinsForDay(day): doc && doc.coins
queryMarketCapCoinsForDay(day) ==
  IF day \in DOMAIN dbMarketcap THEN dbMarketcap[day] ELSE Null

\* db.updateMarketCapCoins(day, coins): updateOne({ day }, { day, coins },
\* { upsert: true })
updateMarketCapCoins(d, day, coins) == (day :> coins) @@ d

newCapInvocation(time) ==
  [start |-> time, day |-> formatTime(time, "daily"), pc |-> "query",
   outcome |-> "pending", value |-> Null, source |-> "none", handed |-> 0,
   had |-> formatTime(time, "daily") \in DOMAIN dbMarketcap]

capCalls ==
  LET RECURSIVE sum(_)
      sum(n) == IF n = 0 THEN 0 ELSE marketcapInvs[n].handed + sum(n - 1)
  IN  sum(Len(marketcapInvs))

capFaults ==
  Cardinality({k \in 1..Len(marketcapInvs) : marketcapInvs[k].source = "failed"})

\* a caller calls fetchDailyMarketCapCoins(): the throttle starts the action
\* or hands back the promise of its last invocation
fetchDailyMarketCapCoins ==
  /\ capCalls < MaxInputs
  /\ LET inv == Len(marketcapInvs) + 1
         th == debounced(marketcapThrottle, now, marketcapWait, inv)
         all == IF th.result = inv
                  THEN Append(marketcapInvs, newCapInvocation(now))
                  ELSE marketcapInvs
     IN  /\ th.result # 0
         /\ marketcapThrottle' = th
         /\ marketcapInvs' = [all EXCEPT ![th.result].handed = @ + 1]
  /\ UNCHANGED <<now, elapsed, dbMarketcap, capWrites, capFrame>>

\* the timer of the throttle runs timerExpired
MarketcapTimerFires ==
  /\ marketcapThrottle.timerId # NoTime
  /\ now >= marketcapThrottle.timerId
  /\ LET inv == Len(marketcapInvs) + 1
         th == timerExpired(marketcapThrottle, now, marketcapWait, inv)
     IN  /\ marketcapThrottle' = th
         /\ marketcapInvs' = IF th.result = inv
                               THEN Append(marketcapInvs, newCapInvocation(now))
                               ELSE marketcapInvs
  /\ UNCHANGED <<now, elapsed, dbMarketcap, capWrites, capFrame>>

\* db.queryMarketCapCoinsForDay(day) answers invocation k: the coins stored
\* are returned, or the source is called
CapQueryDone(k) ==
  /\ k \in 1..Len(marketcapInvs)
  /\ marketcapInvs[k].pc = "query"
  /\ LET coins == queryMarketCapCoinsForDay(marketcapInvs[k].day)
     IN  marketcapInvs' = [marketcapInvs EXCEPT ![k] =
           IF coins # Null
             THEN [@ EXCEPT !.pc = "done", !.outcome = "resolved", !.value = coins]
             ELSE [@ EXCEPT !.pc = "source", !.source = "pending"]]
  /\ UNCHANGED <<now, elapsed, marketcapThrottle, dbMarketcap, capWrites, capFrame>>

\* tickersByMarketcap() resolves: db.updateMarketCapCoins(day, coins) is
\* called and not awaited, the coins are returned
CapSourceDone(k, listing) ==
  /\ k \in 1..Len(marketcapInvs)
  /\ marketcapInvs[k].pc = "source"
  /\ LET coins == tickersByMarketcap(listing)
     IN  /\ marketcapInvs' = [marketcapInvs EXCEPT ![k] =
               [@ EXCEPT !.pc = "done", !.outcome = "resolved", !.value = coins,
                         !.source = "answered"]]
         /\ capWrites' = capWrites \cup {[day |-> marketcapInvs[k].day, coins |-> coins]}
  /\ UNCHANGED <<now, elapsed, marketcapThrottle, dbMarketcap, capFrame>>

\* tickersByMarketcap() rejects: the action rejects, promiseThrottle cancels
\* the throttle and rethrows
CapSourceFail(k) ==
  /\ capFaults < MaxFaults
  /\ k \in 1..Len(marketcapInvs)
  /\ marketcapInvs[k].pc = "source"
  /\ marketcapInvs' = [marketcapInvs EXCEPT ![k] =
       [@ EXCEPT !.pc = "done", !.outcome = "rejected", !.source = "failed"]]
  /\ marketcapThrottle' = cancel(marketcapThrottle)
  /\ UNCHANGED <<now, elapsed, dbMarketcap, capWrites, capFrame>>

\* a write in flight reaches the marketcap_coins collection
CapWriteApply ==
  \E w \in capWrites :
    /\ capWrites' = capWrites \ {w}
    /\ dbMarketcap' = updateMarketCapCoins(dbMarketcap, w.day, w.coins)
    /\ UNCHANGED <<now, elapsed, marketcapThrottle, marketcapInvs, capFrame>>

\* a minute passes: a timer that is due runs before the clock moves on, and
\* the store and the source have answered what was in flight
MinutePasses ==
  /\ elapsed < MaxTicks
  /\ capWrites = {}
  /\ \A k \in 1..Len(marketcapInvs) : marketcapInvs[k].pc = "done"
  /\ marketcapThrottle.timerId = NoTime \/ now < marketcapThrottle.timerId
  /\ now' = now + 1
  /\ elapsed' = elapsed + 1
  /\ UNCHANGED <<marketcapThrottle, marketcapInvs, dbMarketcap, capWrites, capFrame>>

(***************************************************************************)
(* cache.js prefetchAllPairExchanges                                       *)
(***************************************************************************)
\* the orders in which a list may hold the elements of `ids`
Orders(ids) ==
  {order \in [1..Cardinality(ids) -> ids] :
     \A i, j \in DOMAIN order : i # j => order[i] # order[j]}

prefetchFrame == <<syncJob, marketcapThrottle, marketcapInvs, dbMarketcap, capWrites, grown, probe>>

\* prioritizePairExchange = ({ latestDate }) => -(latestDate ? Number(latestDate) : 0)
prioritizePairExchange(doc) ==
  -(IF doc.latestDate = Null THEN 0 ELSE doc.latestDate[2])

\* Array.prototype.sort with the comparator
\* (a, b) => prioritizePairExchange(b) - prioritizePairExchange(a), taken as
\* a stable sort: doc goes before the first element the comparator puts
\* it before
RECURSIVE insertByPriority(_, _)
insertByPriority(sorted, doc) ==
  IF sorted = << >> THEN <<doc>>
  ELSE IF prioritizePairExchange(Head(sorted)) - prioritizePairExchange(doc) < 0
         THEN <<doc>> \o sorted
         ELSE <<Head(sorted)>> \o insertByPriority(Tail(sorted), doc)

RECURSIVE sortByPriority(_)
sortByPriority(docs) ==
  IF docs = << >> THEN << >>
  ELSE insertByPriority(sortByPriority(SubSeq(docs, 1, Len(docs) - 1)), docs[Len(docs)])

\* prefetchAllPairExchanges() is called: it awaits
\* fetchAndCacheAvailablePairExchanges()
prefetchAllPairExchanges ==
  /\ prefetch.pc = "idle"
  /\ LET c == pairsCall(now)
     IN  /\ pairsThrottle' = c.th
         /\ pairsInvs' = c.invs
         /\ prefetch' = [pc |-> "pairs", await |-> c.th.result, sorted |-> << >>, i |-> 0,
                         granularity |-> "daily", call |-> 0, log |-> << >>,
                         wake |-> NoTime, caught |-> FALSE,
                         stored |-> [id \in DOMAIN db |-> db[id].latestDate]]
  /\ UNCHANGED <<uptime, timers, subs, websocketTotal, exited, now, elapsed, refreshVars,
                 db, pendingWrites, seenRaw, liveVars, envVars, prefetchFrame, readVars>>

\* fetchAndCacheAvailablePairExchanges() has settled: on a rejection the
\* catch logs it and the prefetch is over; else the documents it built, in
\* the order of the provider's list, are sorted
PrefetchPairsSettled ==
  /\ prefetch.pc = "pairs"
  /\ pairsInvs[prefetch.await].outcome # "pending"
  /\ IF pairsInvs[prefetch.await].outcome = "rejected"
       THEN prefetch' = [prefetch EXCEPT !.pc = "done", !.caught = TRUE]
       ELSE \E order \in Orders(ProviderPairExchanges) :
              LET pairExchanges == [n \in DOMAIN order |-> DefaultPairExchangeData(order[n])]
                  sorted == sortByPriority(pairExchanges)
              IN  prefetch' = [prefetch EXCEPT !.pc = "call", !.i = 1,
                                 !.sorted = [n \in DOMAIN sorted |-> sorted[n].id]]
  /\ UNCHANGED <<supVars, now, elapsed, refreshVars, db, pendingWrites, seenRaw, liveVars,
                 envVars, prefetchFrame, readVars>>

\* the loop calls fetchAndCacheHisto(pairExchange.id, granularity) and
\* awaits it
PrefetchCall ==
  /\ prefetch.pc = "call"
  /\ LET id == prefetch.sorted[prefetch.i]
         key == <<id, prefetch.granularity>>
     IN  /\ fetchAndCacheHisto_f(id, prefetch.granularity)
         /\ prefetch' = [prefetch EXCEPT !.pc = "await", !.call = Len(calls[key]) + 1,
                                         !.log = Append(@, key)]
  /\ UNCHANGED <<supVars, now, elapsed, nCancel, db, pendingWrites, seenRaw, liveVars,
                 envVars, prefetchFrame, readVars>>

\* the awaited fetchAndCacheHisto has settled: a rejection ends the prefetch
\* in its catch; after "daily" comes "hourly", after "hourly" the delay of
\* throttles.fetchHisto / pairExchanges.length
PrefetchSettled ==
  /\ prefetch.pc = "await"
  /\ LET key == <<prefetch.sorted[prefetch.i], prefetch.granularity>>
         res == calls[key][prefetch.call].res
         rejected == res # 0 /\ invs[key][res].outcome = "rejected"
     IN  /\ res # 0 => invs[key][res].pc = "done"
         /\ prefetch' =
              IF rejected
                THEN [prefetch EXCEPT !.pc = "done", !.caught = TRUE]
              ELSE IF prefetch.granularity = "daily"
                THEN [prefetch EXCEPT !.pc = "call", !.granularity = "hourly"]
              ELSE [prefetch EXCEPT !.pc = "delay",
                      !.wake = now + throttles.fetchHisto \div Len(prefetch.sorted)]
  /\ UNCHANGED <<supVars, now, elapsed, refreshVars, db, pendingWrites, seenRaw, liveVars,
                 envVars, prefetchFrame, readVars>>

\* the delay is over: the writes in flight have reached the store, the
\* loop goes to the next pair-exchange or ends
PrefetchDelayOver ==
  /\ prefetch.pc = "delay"
  /\ elapsed < MaxTicks
  /\ pendingWrites = {}
  /\ now' = prefetch.wake
  /\ elapsed' = elapsed + 1
  /\ prefetch' = IF prefetch.i = Len(prefetch.sorted)
                   THEN [prefetch EXCEPT !.pc = "done"]
                   ELSE [prefetch EXCEPT !.pc = "call", !.i = @ + 1,
                                         !.granularity = "daily"]
  /\ UNCHANGED <<supVars, refreshVars, db, pendingWrites, seenRaw, liveVars, envVars,
                 prefetchFrame, readVars>>

(***************************************************************************)
(* cache.js syncAllPairExchangeStats                                       *)
(***************************************************************************)
\* the stored daily histo of id gets the rate of one more closed day: what
\* db.updateHisto leaves when a refresh stores a histo that extends the
\* stored one
HistoGrows(id, key) ==
  /\ id \in DOMAIN db
  /\ key \notin histoKeys(db[id].histo_daily)
  /\ grown < MaxGrowth
  /\ parseTime(key, "daily") + granularityMs.daily <= now
  /\ db' = updateHisto(db, id, "daily", histoSet(db[id].histo_daily, key, Num(100)))
  /\ grown' = grown + 1
  /\ UNCHANGED <<now, elapsed, refreshVars, pendingWrites, seenRaw, liveVars, envVars,
                 prefetch, syncJob, marketcapThrottle, marketcapInvs, dbMarketcap,
                 capWrites, probe, supVars, readVars>>

\* a day passes
DayPasses ==
  /\ elapsed < MaxTicks
  /\ syncJob.pc \in {"idle", "done"}
  /\ now' = now + granularityMs.daily
  /\ elapsed' = elapsed + 1
  /\ UNCHANGED <<refreshVars, db, pendingWrites, seenRaw, liveVars, envVars, jobVars,
                 supVars, readVars>>

jobFrame == <<prefetch, marketcapThrottle, marketcapInvs, dbMarketcap, capWrites, grown, probe>>

\* syncAllPairExchangeStats() is called: it awaits db.queryPairExchangeIds()
syncAllPairExchangeStats ==
  /\ syncJob.pc \in {"idle", "done"}
  /\ (IF syncJob.pc = "idle" THEN 0 ELSE syncJob.run) < MaxRuns
  /\ syncJob' = [pc |-> "ids", ids |-> << >>, i |-> 0, caught |-> FALSE,
                 outcome |-> "pending", written |-> {},
                 run |-> IF syncJob.pc = "idle" THEN 1 ELSE syncJob.run + 1]
  /\ UNCHANGED <<now, elapsed, refreshVars, db, pendingWrites, seenRaw, liveVars, envVars,
                 jobFrame, supVars, readVars>>

\* db.queryPairExchangeIds() resolves with the ids stored
SyncIdsDone ==
  /\ syncJob.pc = "ids"
  /\ \E order \in Orders(DOMAIN db) :
       syncJob' = [syncJob EXCEPT !.pc = "loop", !.ids = order, !.i = 1]
  /\ UNCHANGED <<now, elapsed, refreshVars, db, pendingWrites, seenRaw, liveVars, envVars,
                 jobFrame, supVars, readVars>>

\* a call of the store made by the job fails (the ids, the document of the
\* current id, or the write of its stats): the catch of the job logs it and
\* the job resolves, the ids left are not visited
SyncStoreFail ==
  /\ syncJob.pc \in {"ids", "loop"}
  /\ syncJob' = [syncJob EXCEPT !.pc = "done", !.caught = TRUE, !.outcome = "resolved"]
  /\ UNCHANGED <<now, elapsed, refreshVars, db, pendingWrites, seenRaw, liveVars, envVars,
                 jobFrame, supVars, readVars>>

\* the job reads histo_daily of the current id and awaits
\* syncPairStats(id, histo_daily): getFiatOrCurrency throws for a ticker
\* that is not known, which the catch of the job logs; else the stats are
\* written, unless the histo has no dated key
SyncPair ==
  /\ syncJob.pc = "loop"
  /\ LET id == syncJob.ids[syncJob.i]
         pe == pairExchangeFromId(id)
         stats == syncPairStats(id, db[id].histo_daily, << >>, now)
         last == syncJob.i = Len(syncJob.ids)
     IN  IF ~(supportTicker(pe.from) /\ supportTicker(pe.to))
           THEN /\ syncJob' = [syncJob EXCEPT !.pc = "done", !.caught = TRUE,
                                              !.outcome = "resolved"]
                /\ UNCHANGED db
           ELSE /\ db' = IF stats = Null THEN db ELSE updatePairExchangeStats(db, id, stats)
                /\ syncJob' = [syncJob EXCEPT
                     !.i = @ + 1,
                     !.written = IF stats = Null THEN @ ELSE @ \cup {id},
                     !.pc = IF last THEN "done" ELSE "loop",
                     !.outcome = IF last THEN "resolved" ELSE "pending"]
  /\ UNCHANGED <<now, elapsed, refreshVars, pendingWrites, seenRaw, liveVars, envVars,
                 jobFrame, supVars, readVars>>

(***************************************************************************)
(* utils.js: functions evaluated on their own                              *)
(***************************************************************************)
utilsFrame == <<now, elapsed, refreshVars, db, pendingWrites, seenRaw, liveVars, envVars,
                prefetch, syncJob, marketcapThrottle, marketcapInvs, dbMarketcap,
                capWrites, grown, supVars, readVars>>

newProbe(fn) ==
  [fn |-> fn, symbol |-> << >>, pairExchange |-> NoPairExchange,
   parsed |-> NoPairExchange, t |-> 0, granularity |-> "daily", offset |-> 0,
   key |-> LatestKey, back |-> 0, again |-> LatestKey]

\* the symbols of the provider: exchange, type, base and quote, for
\* exchanges with and without "_" in their id
Symbols ==
  {<<e, type, from, to>> :
     e \in {"KRAKEN", "BITSTAMP"}, type \in {"SPOT", "FTS"},
     from \in {"BTC", "ETH", "XXX"}, to \in {"USD", "BTC"}}
    \cup {<<"OKCOIN", "CNY", "SPOT", from, "CNY">> : from \in {"BTC", "ETH"}}
    \cup {<<"KRAKEN", "SPOT", "BTC", "USD", "X">>}

\* the provider lists `symbol`: its pair-exchange, if any, and that
\* pair-exchange read back from its id
EvalPairExchange(symbol) ==
  /\ LET pe == symbolToPairExchange(symbol)
     IN  probe' = [newProbe("pairExchangeFromId") EXCEPT
                     !.symbol = symbol,
                     !.pairExchange = pe,
                     !.parsed = IF pe = NoPairExchange
                                  THEN NoPairExchange
                                  ELSE pairExchangeFromId(pe.id)]
  /\ UNCHANGED utilsFrame

\* the instants and the offsets of the host clock, in minutes east of UTC
ProbeTimes == {14390, 14399, 14400, 14401, 14440, 15000, 15839}
Offsets == {-480, -300, -1, 0, 60, 330, 720}

\* a key is made at t on a host at `offset`, parsed, and formatted again
EvalFormatTime(t, granularity, offset) ==
  /\ LET key == formats(granularity, t, offset)
         back == parsers(granularity, key, offset)
     IN  probe' = [newProbe("formatTime") EXCEPT
                     !.t = t, !.granularity = granularity, !.offset = offset,
                     !.key = key, !.back = back,
                     !.again = formats(granularity, back, offset)]
  /\ UNCHANGED utilsFrame

(***************************************************************************)
(* Specifications                                                          *)
(***************************************************************************)
RefreshNext ==
  \/ Tick
  \/ \E id \in RefreshIds : fetchAndCacheHisto(id, asked)
  \/ \E key \in Keys : TimerFires(key)
  \/ \E key \in Keys, k \in 1..MaxInputs : QueryDone(key, k)
  \/ \E key \in Keys, k \in 1..MaxInputs : QueryFail(key, k)
  \/ \E key \in Keys, k \in 1..MaxInputs : FetchDone(key, k)
  \/ \E key \in Keys, k \in 1..MaxInputs : FetchFail(key, k)
  \/ DbApply

LiveNext ==
  \/ \E id \in LiveIds, price \in LivePrices : PriceUpdate(id, price)
  \/ BufferFlush

Next == RefreshNext \/ LiveNext

\* the histo refresh alone
SpecRefresh == Init /\ [][RefreshNext]_vars

\* the refreshes when the provider answers with several points of one bucket
InitIntraday == InitEngine /\ feed \in {"twoOpen", "sameDay"}

SpecIntraday == InitIntraday /\ [][RefreshNext]_vars

\* the whole engine
Spec == Init /\ [][Next]_vars


\* what the engine does within one clock step: everything but the passing
\* of time
InstantNext ==
  \/ \E id \in RefreshIds : fetchAndCacheHisto(id, asked)
  \/ \E key \in Keys, k \in 1..MaxInputs : QueryDone(key, k)
  \/ \E key \in Keys, k \in 1..MaxInputs : QueryFail(key, k)
  \/ \E key \in Keys, k \in 1..MaxInputs : FetchDone(key, k)
  \/ \E key \in Keys, k \in 1..MaxInputs : FetchFail(key, k)
  \/ DbApply
  \/ \E id \in LiveIds, price \in LivePrices : PriceUpdate(id, price)
  \/ BufferFlush

SpecInstant == Init /\ [][InstantNext]_vars

\* the live pipeline alone, fed with two supported pairs and an unsupported
\* one
InitLive == Init /\ now = 14440 /\ asked = "daily" /\ feed = "empty"

LiveOnlyNext ==
  \/ \E id \in BatchIds, price \in LivePrices : PriceUpdate(id, price)
  \/ BufferFlush
  \/ DbApply

SpecLive == InitLive /\ [][LiveOnlyNext]_vars


\* the supervision loop with its subscriptions
InitSup == Init /\ now = 14440 /\ asked = "daily" /\ feed = "empty"

SupNext ==
  \/ \E t \in timers : pullLoop(t)
  \/ \E t \in timers : autoReboot(t)
  \/ PairsTimerFires
  \/ \E k \in 1..MaxLaunches : PairsDone(k)
  \/ \E k \in 1..MaxLaunches : PairsFail(k)
  \/ \E n \in 1..MaxLaunches : Subscribed(n)
  \/ \E n \in 1..MaxLaunches : RefreshRejected(n)
  \/ \E n \in 1..MaxLaunches : SocketOpen(n)
  \/ \E n \in 1..MaxLaunches : StreamError(n)
  \/ \E n \in 1..MaxLaunches : RemoteClose(n)
  \/ \E n \in 1..MaxLaunches : SocketClosed(n)

SpecSup == InitSup /\ [][SupNext]_vars

\* what the event loop of the process runs once it is due: timers, settled
\* promises and socket events of a handshake under way; the failures of the
\* provider are left to the environment
SupDue ==
  \/ \E t \in timers : pullLoop(t)
  \/ \E t \in timers : autoReboot(t)
  \/ PairsTimerFires
  \/ \E k \in 1..MaxLaunches : PairsDone(k)
  \/ \E n \in 1..MaxLaunches : Subscribed(n)
  \/ \E n \in 1..MaxLaunches : RefreshRejected(n)
  \/ \E n \in 1..MaxLaunches : SocketOpen(n)
  \/ \E n \in 1..MaxLaunches : SocketClosed(n)

SpecSupFair == SpecSup /\ WF_vars(SupDue)

\* the read operations over a store that holds two exchanges of BTC/USD,
\* synced before; the provider serves each refresh or fails it
StoredStats ==
  {[hasHistoryFor1Year |-> y, yesterdayVolume |-> v, hasHistoryFor30LastDays |-> m] :
     y \in BOOLEAN, v \in {10, 1000}, m \in BOOLEAN}

StoredHisto == {[k |-> formatTime(14440 - 1440, "daily"), v |-> Num(100)]}

InitStore ==
  /\ now = 14440
  /\ elapsed = 0
  /\ fetchAndCacheHisto_caches = << >>
  /\ invs = [key \in ReadIds \X {"daily"} |-> << >>]
  /\ calls = [key \in ReadIds \X {"daily"} |-> << >>]
  /\ nCancel = [key \in ReadIds \X {"daily"} |-> 0]
  /\ \E x \in {st \in StoredStats : /\ st.hasHistoryFor1Year
                                      /\ st.yesterdayVolume = 10
                                      /\ st.hasHistoryFor30LastDays},
        y \in StoredStats :
       db = (KRAKEN_BTC_USD :>
               (x @@ [histo_daily |-> StoredHisto, latest |-> Num(7)]
                  @@ DefaultPairExchangeData(KRAKEN_BTC_USD)))
            @@ (BITSTAMP_BTC_USD :>
               (y @@ [histo_daily |-> StoredHisto, latest |-> Num(8)]
                  @@ DefaultPairExchangeData(BITSTAMP_BTC_USD)))
  /\ pendingWrites = {}
  /\ buf = << >>
  /\ seenRaw = [id \in ReadIds |-> {}]
  /\ liveLog = << >>
  /\ emitted = 0
  /\ windows = << >>
  /\ uptime = 0
  /\ timers = {}
  /\ subs = << >>
  /\ websocketTotal = 0
  /\ exited = FALSE
  /\ pairsThrottle = FreshThrottle
  /\ pairsInvs = << >>
  /\ reqs = << >>
  /\ exchangesThrottle = FreshThrottle
  /\ exchangesInvs = << >>
  /\ dbExchanges = {[id |-> "KRAKEN", name |-> "Kraken"]}
  /\ prefetch = NoJob
  /\ syncJob = NoJob
  /\ marketcapThrottle = FreshThrottle
  /\ marketcapInvs = << >>
  /\ dbMarketcap = << >>
  /\ capWrites = {}
  /\ grown = 0
  /\ probe = NoProbe
  /\ asked = "daily"

InitRead == InitStore /\ BLACKLIST_EXCHANGES = <<"">> /\ feed = "twoClosed"

ReadNext ==
  \/ \E exchange \in {"", "BITSTAMP"} : getHistoRequest(exchange, Null, NoAt)
  \/ getExchanges
  \/ \E k \in 1..MaxRequests : PairsDone(k)
  \/ \E k \in 1..MaxRequests : PairsFail(k)
  \/ \E k \in 1..MaxRequests : ExchangesDone(k)
  \/ \E k \in 1..MaxRequests : ExchangesFail(k)
  \/ \E r \in 1..MaxRequests : HistoPairsQueried(r)
  \/ \E r \in 1..MaxRequests : HistoSettled(r)
  \/ \E r \in 1..MaxRequests : ExchangesSettled(r)
  \/ \E r \in 1..MaxRequests : ExchangesPairsQueried(r)
  \/ \E key \in ReadIds \X {"daily"}, k \in 1..MaxRequests : QueryDone(key, k)
  \/ \E key \in ReadIds \X {"daily"}, k \in 1..MaxRequests : QueryFail(key, k)
  \/ \E key \in ReadIds \X {"daily"}, k \in 1..MaxRequests : FetchDone(key, k)
  \/ \E key \in ReadIds \X {"daily"}, k \in 1..MaxRequests : FetchFail(key, k)
  \/ DbApply

SpecRead == InitRead /\ [][ReadNext]_vars

\* the read operations of a process started with or without a blacklist,
\* over a store whose two exchanges have history
Blacklists == {<<"">>, <<"BitStamp">>, <<"kraken", "BITSTAMP">>}

InitBlacklist ==
  /\ InitStore
  /\ db[BITSTAMP_BTC_USD].hasHistoryFor30LastDays
  /\ BLACKLIST_EXCHANGES \in Blacklists
  /\ feed = "twoClosed"

SpecBlacklist == InitBlacklist /\ [][ReadNext]_vars

\* getHistoRequest with `after` and `at`: the days the requests name are
\* the two closed days of the feeds, and a day no histo has
DayKey(ago) == formatTime(14440 - ago * 1440, "daily")

Filters ==
  {<<Null, NoAt>>, <<DayKey(2), NoAt>>, <<DayKey(1), NoAt>>, <<Null, At({})>>,
   <<Null, At({DayKey(1)})>>, <<DayKey(2), At({DayKey(2), LatestKey})>>,
   <<Null, At({DayKey(7)})>>}

InitFilter ==
  /\ InitStore
  /\ db[BITSTAMP_BTC_USD].hasHistoryFor30LastDays
  /\ ~db[BITSTAMP_BTC_USD].hasHistoryFor1Year
  /\ db[BITSTAMP_BTC_USD].yesterdayVolume = 1000
  /\ BLACKLIST_EXCHANGES = <<"">>
  /\ feed \in {"twoClosed", "closedThenOpen"}

FilterNext ==
  \/ \E flt \in Filters : getHistoRequest("", flt[1], flt[2])
  \/ \E k \in 1..MaxRequests : PairsDone(k)
  \/ \E k \in 1..MaxRequests : PairsFail(k)
  \/ \E r \in 1..MaxRequests : HistoPairsQueried(r)
  \/ \E r \in 1..MaxRequests : HistoSettled(r)
  \/ \E key \in ReadIds \X {"daily"}, k \in 1..MaxRequests : QueryDone(key, k)
  \/ \E key \in ReadIds \X {"daily"}, k \in 1..MaxRequests : QueryFail(key, k)
  \/ \E key \in ReadIds \X {"daily"}, k \in 1..MaxRequests : FetchDone(key, k)
  \/ \E key \in ReadIds \X {"daily"}, k \in 1..MaxRequests : FetchFail(key, k)
  \/ DbApply

SpecFilter == InitFilter /\ [][FilterNext]_vars

\* the stats job over documents whose daily histo grows: histories without
\* a day, with two days, and with the twenty days before the start
StartDay == 10 * granularityMs.daily

DaysBefore(n) == {[k |-> formatTime(StartDay - i * 1440, "daily"), v |-> Num(100)] : i \in 1..n}

Histories ==
  {{}, {[k |-> LatestKey, v |-> Num(100)]}, DaysBefore(2),
   DaysBefore(20) \cup {[k |-> LatestKey, v |-> Num(100)]}}

StatsIds == {KRAKEN_BTC_USD, KRAKEN_XXX_USD}

InitStatsWith(histories) ==
  /\ now = StartDay + 40
  /\ elapsed = 0
  /\ fetchAndCacheHisto_caches = << >>
  /\ invs = [key \in StatsIds \X {"daily"} |-> << >>]
  /\ calls = [key \in StatsIds \X {"daily"} |-> << >>]
  /\ nCancel = [key \in StatsIds \X {"daily"} |-> 0]
  /\ \E h \in histories :
       db = (KRAKEN_BTC_USD :>
               ([histo_daily |-> h] @@ DefaultPairExchangeData(KRAKEN_BTC_USD)))
            @@ (KRAKEN_XXX_USD :>
               ([histo_daily |-> DaysBefore(2)] @@ DefaultPairExchangeData(KRAKEN_XXX_USD)))
  /\ pendingWrites = {}
  /\ buf = << >>
  /\ seenRaw = [id \in StatsIds |-> {}]
  /\ liveLog = << >>
  /\ emitted = 0
  /\ windows = << >>
  /\ uptime = 0
  /\ timers = {}
  /\ subs = << >>
  /\ websocketTotal = 0
  /\ exited = FALSE
  /\ pairsThrottle = FreshThrottle
  /\ pairsInvs = << >>
  /\ reqs = << >>
  /\ exchangesThrottle = FreshThrottle
  /\ exchangesInvs = << >>
  /\ dbExchanges = {}
  /\ BLACKLIST_EXCHANGES = <<"">>
  /\ prefetch = NoJob
  /\ syncJob = NoJob
  /\ marketcapThrottle = FreshThrottle
  /\ marketcapInvs = << >>
  /\ dbMarketcap = << >>
  /\ capWrites = {}
  /\ grown = 0
  /\ probe = NoProbe
  /\ asked = "daily"

InitStatsStore == InitStatsWith(Histories)

InitStats == InitStatsStore /\ feed = "empty"

\* the days a histo may grow by: yesterday, and the day before its oldest
GrowKeys(id) ==
  LET days == {parseTime(k, "daily") : k \in histoKeys(db[id].histo_daily) \ {LatestKey}}
  IN  {formatTime(now - 1440, "daily")}
        \cup (IF days = {} THEN {} ELSE {formatTime(SetMin(days) - 1440, "daily")})

StatsNext ==
  \/ DayPasses
  \/ \E key \in GrowKeys(KRAKEN_BTC_USD) : HistoGrows(KRAKEN_BTC_USD, key)
  \/ syncAllPairExchangeStats
  \/ SyncIdsDone
  \/ SyncStoreFail
  \/ SyncPair

SpecStats == InitStats /\ [][StatsNext]_vars

\* the stats job over a histo of the twenty days up to yesterday, and over
\* one of the nineteen days up to yesterday with "latest"
InitMonth ==
  /\ InitStatsWith({DaysBefore(20), DaysBefore(19) \cup {[k |-> LatestKey, v |-> Num(100)]}})
  /\ feed = "empty"

SpecMonth == InitMonth /\ [][StatsNext]_vars

\* daily refreshes of a pair with known tickers and of one with an unknown
\* ticker, over a store that may reject a write, and the stats job
InitStoreFail == InitStatsStore /\ feed \in {"twoClosed", "openOnly"}

StatsKeys == StatsIds \X {"daily"}

StoreFailNext ==
  \/ \E id \in StatsIds : fetchAndCacheHisto(id, "daily")
  \/ \E key \in StatsKeys, k \in 1..MaxInputs : QueryDone(key, k)
  \/ \E key \in StatsKeys, k \in 1..MaxInputs : FetchDone(key, k)
  \/ DbApply
  \/ DbFail
  \/ syncAllPairExchangeStats
  \/ SyncIdsDone
  \/ SyncStoreFail
  \/ SyncPair

SpecStoreFail == InitStoreFail /\ [][StoreFailNext]_vars

\* the prefetch over a store that holds two of the provider's three pairs,
\* with the dates of their last live rates
PrefetchKeys == ProviderPairExchanges \X Granularities

StoredLatestDates == {Null, DateOf(14000), DateOf(14400)}

InitPrefetch ==
  /\ now = 14440
  /\ elapsed = 0
  /\ fetchAndCacheHisto_caches = << >>
  /\ invs = [key \in PrefetchKeys |-> << >>]
  /\ calls = [key \in PrefetchKeys |-> << >>]
  /\ nCancel = [key \in PrefetchKeys |-> 0]
  /\ \E dk, db_ \in StoredLatestDates :
       /\ dk = db_ => dk = Null
       /\ db = (KRAKEN_BTC_USD :>
                  ([latestDate |-> dk] @@ DefaultPairExchangeData(KRAKEN_BTC_USD)))
               @@ (BITSTAMP_BTC_USD :>
                  ([latestDate |-> db_] @@ DefaultPairExchangeData(BITSTAMP_BTC_USD)))
  /\ pendingWrites = {}
  /\ buf = << >>
  /\ seenRaw = [id \in ProviderPairExchanges |-> {}]
  /\ liveLog = << >>
  /\ emitted = 0
  /\ windows = << >>
  /\ uptime = 0
  /\ timers = {}
  /\ subs = << >>
  /\ websocketTotal = 0
  /\ exited = FALSE
  /\ pairsThrottle = FreshThrottle
  /\ pairsInvs = << >>
  /\ reqs = << >>
  /\ exchangesThrottle = FreshThrottle
  /\ exchangesInvs = << >>
  /\ dbExchanges = {}
  /\ BLACKLIST_EXCHANGES = <<"">>
  /\ prefetch = NoJob
  /\ syncJob = NoJob
  /\ marketcapThrottle = FreshThrottle
  /\ marketcapInvs = << >>
  /\ dbMarketcap = << >>
  /\ capWrites = {}
  /\ grown = 0
  /\ probe = NoProbe
  /\ asked = "daily"
  /\ feed = "twoClosed"

PrefetchNext ==
  \/ prefetchAllPairExchanges
  \/ \E k \in 1..MaxInputs : PairsDone(k)
  \/ \E k \in 1..MaxInputs : PairsFail(k)
  \/ PrefetchPairsSettled
  \/ PrefetchCall
  \/ PrefetchSettled
  \/ PrefetchDelayOver
  \/ \E key \in PrefetchKeys, k \in 1..MaxInputs : QueryDone(key, k)
  \/ \E key \in PrefetchKeys, k \in 1..MaxInputs : QueryFail(key, k)
  \/ \E key \in PrefetchKeys, k \in 1..MaxInputs : FetchDone(key, k)
  \/ \E key \in PrefetchKeys, k \in 1..MaxInputs : FetchFail(key, k)
  \/ DbApply

SpecPrefetch == InitPrefetch /\ [][PrefetchNext]_vars

\* the market-cap refresh from 23:58 on, over a store with or without the
\* snapshot of the day
InitMarketcap ==
  /\ now = 14398
  /\ elapsed = 0
  /\ fetchAndCacheHisto_caches = << >>
  /\ invs = [key \in Keys |-> << >>]
  /\ calls = [key \in Keys |-> << >>]
  /\ nCancel = [key \in Keys |-> 0]
  /\ db = << >>
  /\ pendingWrites = {}
  /\ buf = << >>
  /\ seenRaw = [id \in StoredIds |-> {}]
  /\ liveLog = << >>
  /\ emitted = 0
  /\ windows = << >>
  /\ uptime = 0
  /\ timers = {}
  /\ subs = << >>
  /\ websocketTotal = 0
  /\ exited = FALSE
  /\ pairsThrottle = FreshThrottle
  /\ pairsInvs = << >>
  /\ reqs = << >>
  /\ exchangesThrottle = FreshThrottle
  /\ exchangesInvs = << >>
  /\ dbExchanges = {}
  /\ BLACKLIST_EXCHANGES = <<"">>
  /\ prefetch = NoJob
  /\ syncJob = NoJob
  /\ marketcapThrottle = FreshThrottle
  /\ marketcapInvs = << >>
  /\ dbMarketcap \in {<< >>, (formatTime(14398, "daily") :> <<"BTC">>)}
  /\ capWrites = {}
  /\ grown = 0
  /\ probe = NoProbe
  /\ asked = "daily"
  /\ feed = "empty"

MarketcapNext ==
  \/ fetchDailyMarketCapCoins
  \/ MarketcapTimerFires
  \/ \E k \in 1..(MaxInputs + MaxTicks) : CapQueryDone(k)
  \/ \E k \in 1..(MaxInputs + MaxTicks), listing \in Rankings : CapSourceDone(k, listing)
  \/ \E k \in 1..(MaxInputs + MaxTicks) : CapSourceFail(k)
  \/ CapWriteApply
  \/ MinutePasses

SpecMarketcap == InitMarketcap /\ [][MarketcapNext]_vars

\* the functions of utils.js on their own
UtilsNext ==
  \/ \E symbol \in Symbols : EvalPairExchange(symbol)
  \/ \E t \in ProbeTimes, granularity \in Granularities, offset \in Offsets :
       EvalFormatTime(t, granularity, offset)

InitUtils == InitMarketcap /\ dbMarketcap = << >>

SpecUtils == InitUtils /\ [][UtilsNext]_vars

(***************************************************************************)
(* Properties                                                              *)
(***************************************************************************)
W == throttles.fetchHisto

\* nothing is in flight
Quiescent ==
  /\ pendingWrites = {}
  /\ \A key \in Keys : \A k \in 1..Len(invs[key]) : invs[key][k].pc = "done"

\* invocation k of key asked the provider and got a series
Fetched(key, k) ==
  invs[key][k].provider = "answered" /\ invs[key][k].issued # << >>

\* C1 as claimed: no two invocations of the action of one throttle begin
\* less than W apart, whatever completes or fails in between.
C1_AtMostOnePerWindow ==
  \A key \in Keys : \A i, j \in 1..Len(invs[key]) :
    i < j => invs[key][j].start - invs[key][i].start >= W

\* C1 amended: two consecutive invocations begin at least W apart unless a
\* failure of the action cancelled the throttle between their starts, or the
\* earlier one was started by the timer (trailing edge) and the later one by
\* a call (lodash then measures the wait from the last call).
C1_WindowUnlessInvalidated ==
  \A key \in Keys : \A j \in 2..Len(invs[key]) :
    LET a == invs[key][j - 1]
        b == invs[key][j]
    IN  (b.nc = a.nc /\ ~(a.kind = "trailing" /\ b.kind = "leading"))
          => b.start - a.start >= W

\* a timer-started invocation follows the previous one, no failure between
C1_Witness ==
  \E key \in Keys : \E j \in 2..Len(invs[key]) :
    /\ invs[key][j].nc = invs[key][j - 1].nc
    /\ invs[key][j].kind = "trailing"
    /\ invs[key][j - 1].kind = "leading"

\* C2 as claimed: any two calls to one throttle made less than W apart are
\* handed the same result (one invocation serves both).
C2_CallsWithinWindowShare ==
  \A key \in Keys : \A i, j \in 1..Len(calls[key]) :
    (i < j /\ calls[key][j].t - calls[key][i].t < W)
      => calls[key][i].res = calls[key][j].res

\* C2 amended: two calls both made less than W after the start of one
\* call-started invocation, with no failure of the action between that start
\* and the calls, are handed the same result: the promise of that invocation,
\* which ran once for both.
C2_CallsOfOneWindowShare ==
  \A key \in Keys : \A k \in 1..Len(invs[key]) :
    \A i, j \in 1..Len(calls[key]) :
      LET inv == invs[key][k]
          InWindow(c) == c.ninv >= k /\ c.t < inv.start + W /\ c.nc = inv.nc
      IN  (inv.kind = "leading" /\ i < j
             /\ InWindow(calls[key][i]) /\ InWindow(calls[key][j]))
            => /\ calls[key][i].res = k
               /\ calls[key][j].res = k
               /\ ~calls[key][j].started

\* two calls of one window, the later one served without starting anything
C2_Witness ==
  \E key \in Keys : \E i, j \in 1..Len(calls[key]) :
    /\ i < j
    /\ calls[key][i].started
    /\ ~calls[key][j].started
    /\ calls[key][i].res = calls[key][j].res
    /\ calls[key][j].t > calls[key][i].t

\* C3: after an invocation has failed, the first call that follows starts a
\* new invocation, and no call is ever handed a promise that has already
\* rejected.
C3_ErrorInvalidates ==
  \A key \in Keys : \A j \in 1..Len(calls[key]) :
    LET c == calls[key][j]
        before == IF j = 1 THEN 0 ELSE calls[key][j - 1].nc
    IN  /\ c.handed # "rejected"
        /\ c.nc > before => c.started

\* a call made after a failure, inside the failed invocation's window
C3_Witness ==
  \E key \in Keys : \E j \in 1..Len(calls[key]) : \E k \in 1..Len(invs[key]) :
    /\ invs[key][k].outcome = "rejected"
    /\ calls[key][j].nc > 0
    /\ calls[key][j].res > k
    /\ calls[key][j].t < invs[key][k].start + W

\* C4: a refresh whose provider call failed resolves (it does not reject)
\* with the histo of the document it had read, and issues no store write:
\* neither the stored histo nor the statistics are touched by it.
C4_ProviderFailureReturnsCached ==
  \A key \in Keys : \A k \in 1..Len(invs[key]) :
    invs[key][k].provider = "failed" =>
      /\ invs[key][k].outcome = "resolved"
      /\ invs[key][k].value = invs[key][k].cached
      /\ invs[key][k].value.tag = "histo"
      /\ invs[key][k].issued = << >>
      /\ \A w \in pendingWrites : w.by # <<key, k>>

\* the provider failed on a refresh of a document that already had a histo
C4_Witness ==
  \E key \in Keys : \E k \in 1..Len(invs[key]) :
    /\ invs[key][k].provider = "failed"
    /\ invs[key][k].value.h # {}
    /\ db[key[1]][histoField(key[2])] = invs[key][k].value.h


\* C5: once a refresh of (id, g) has fetched a series in bucket b, every later
\* refresh of (id, g) that reads the clock in bucket b returns the stored
\* histo without asking the provider, for daily and hourly alike.
C5_LoadedBucketNotRefetched ==
  \A key \in Keys : \A i, j \in 1..Len(invs[key]) :
    (/\ i < j
     /\ Fetched(key, i)
     /\ invs[key][j].nowKey = formatTime(invs[key][i].fetchNow, key[2]))
      => invs[key][j].provider = "none"

\* C6: when nothing is in flight, historyLoadedAt_g of the document is the
\* key of the current bucket exactly when the last refresh of (id, g) that
\* asked the provider got a series in this bucket.
C6_MarkerIffLoadedInBucket ==
  Quiescent =>
    \A key \in Keys :
      LET asking == {k \in 1..Len(invs[key]) : invs[key][k].provider # "none"}
          last == SetMax(asking)
          loaded ==
            /\ asking # {}
            /\ Fetched(key, last)
            /\ formatTime(invs[key][last].fetchNow, key[2])
                 = formatTime(now, key[2])
      IN  db[key[1]][historyLoadedAtField(key[2])] = formatTime(now, key[2])
            <=> loaded

\* C7: the daily refresh of a stale document is called twice within the
\* window and the provider answers: once the window has passed within the
\* same day and nothing is in flight, the provider has been asked exactly
\* once, the invocation the timer starts at the end of the window included,
\* and both calls resolved to the same histo.
C7_TwoCallsOneProviderCall ==
  \A key \in Keys :
    LET c == calls[key]
        asking == {k \in 1..Len(invs[key]) : invs[key][k].provider # "none"}
    IN  (/\ key[2] = "daily"
         /\ Len(c) = 2
         /\ c[2].t - c[1].t < W
         /\ now >= c[1].t + W
         /\ formatTime(now, "daily") = formatTime(c[1].t, "daily")
         /\ fetchAndCacheHisto_caches[key].timerId = NoTime
         /\ nCancel[key] = 0
         /\ \A k \in 1..Len(invs[key]) : invs[key][k].provider # "failed"
         /\ Quiescent)
          => /\ Cardinality(asking) = 1
             /\ invs[key][c[1].res].value = invs[key][c[2].res].value

\* C8: the provider throws on the first attempt of a daily refresh; a second
\* call made after that attempt has settled, within the window, starts a new
\* invocation (and with it a new provider call).
C8_RetryAfterProviderError ==
  \A key \in Keys :
    LET c == calls[key]
    IN  (/\ key[2] = "daily"
         /\ Len(c) >= 2
         /\ c[1].res = 1
         /\ invs[key][1].provider = "failed"
         /\ c[2].handed # "pending"
         /\ c[2].t < c[1].t + W)
          => c[2].started


\* the first refresh of a stale daily document got the two points of S2,
\* one day and two days before the instant T at which it read the clock, and
\* its writes have landed
S2Refreshed(key) ==
  /\ key[2] = "daily"
  /\ feed = "twoClosed"
  /\ Len(invs[key]) = 1
  /\ Fetched(key, 1)
  /\ Quiescent

C10_RatesConvertedOnce ==
  LET shift(id) == Magnitudes[id[3]] - Magnitudes[id[2]]
      Converted(id, v) ==
        \E raw \in seenRaw[id] : v = [m |-> raw, e |-> shift(id)]
  IN  /\ \A w \in pendingWrites : \A entry \in w.histo : Converted(w.id, entry.v)
      /\ \A key \in Keys : \A k \in 1..Len(invs[key]) :
           Fetched(key, k) =>
             \A entry \in invs[key][k].value.h : Converted(key[1], entry.v)
      /\ \A b \in 1..Len(liveLog) : \A i \in 1..Len(liveLog[b]) :
           Converted(liveLog[b][i].pairExchangeId, liveLog[b][i].price)
      /\ \A id \in StoredIds :
           db[id].latest # DefaultPairExchangeData(id).latest
             => Converted(id, db[id].latest)
      /\ \A id \in StoredIds : shift(id) # 0

\* a refresh has handed over a histo and a live rate is in the store
C10_Witness ==
  \E key \in Keys : \E k \in 1..Len(invs[key]) :
    /\ Fetched(key, k)
    /\ invs[key][k].value.h # {}
    /\ db[key[1]].latest # DefaultPairExchangeData(key[1]).latest


\* the positions of window w that hold an update of a supported pair `id`
UpdatesOf(w, id) == {i \in 1..Len(w) : w[i].pairExchangeId = id}

SupportedId(id) == supportTicker(id[2]) /\ supportTicker(id[3])

\* window w without its position j
RemoveAt(w, j) == SubSeq(w, 1, j - 1) \o SubSeq(w, j + 1, Len(w))

Entries(list) == {list[i] : i \in 1..Len(list)}

\* C11: every non-empty buffer window leads to one updateLiveRates call,
\* whose list has exactly one entry per distinct supported pairExchangeId of
\* the window, with the converted price of the last update of that id.
C11_BatchCoalesced ==
  /\ Len(liveLog) = Len(windows)
  /\ \A b \in 1..Len(liveLog) :
       LET w == windows[b]
           list == liveLog[b]
           ids == {w[i].pairExchangeId : i \in 1..Len(w)}
       IN  /\ {list[i].pairExchangeId : i \in 1..Len(list)}
                = {id \in ids : SupportedId(id)}
           /\ \A i, j \in 1..Len(list) :
                list[i].pairExchangeId = list[j].pairExchangeId => i = j
           /\ \A i \in 1..Len(list) :
                LET id == list[i].pairExchangeId
                    last == SetMax(UpdatesOf(w, id))
                IN  list[i].price =
                      [m |-> w[last].price,
                       e |-> Magnitudes[id[3]] - Magnitudes[id[2]]]

\* a window with two supported pairs, one of them updated twice with
\* different prices
C11_Witness ==
  \E b \in 1..Len(liveLog) :
    /\ Len(liveLog[b]) = 2
    /\ \E i, j \in 1..Len(windows[b]) :
         /\ i < j
         /\ windows[b][i].pairExchangeId = windows[b][j].pairExchangeId
         /\ windows[b][i].price # windows[b][j].price

\* C12: updateLiveRates is never called with an empty list, also when every
\* update of the window was for an unsupported ticker.
C12_NoEmptyBatchWritten ==
  /\ \A b \in 1..Len(liveLog) : liveLog[b] # << >>
  /\ \A w \in pendingWrites : w.op = "updateLiveRates" => w.rates # << >>

\* C13 as claimed: when a window holds the same update at several positions,
\* the list handed to updateLiveRates has the entries of the list for the
\* window with one of these positions left out, whichever it is.
C13_DuplicatesIrrelevant ==
  \A b \in 1..Len(liveLog) :
    LET w == windows[b]
    IN  \A i, j \in 1..Len(w) :
          (i # j /\ w[i] = w[j])
            => Entries(ratesPerId(RemoveAt(w, j), << >>)) = Entries(liveLog[b])

\* C13 amended: leaving out an occurrence that is directly followed by the
\* same update leaves the list identical; leaving out any occurrence but the
\* last leaves the same entries, possibly in another order.
C13_EarlierDuplicatesIrrelevant ==
  \A b \in 1..Len(liveLog) :
    LET w == windows[b]
    IN  \A i, j \in 1..Len(w) :
          (i < j /\ w[i] = w[j])
            => /\ Entries(ratesPerId(RemoveAt(w, i), << >>)) = Entries(liveLog[b])
               /\ j = i + 1 => ratesPerId(RemoveAt(w, i), << >>) = liveLog[b]

\* a window with the same supported update twice in a row
C13_Witness ==
  \E b \in 1..Len(liveLog) : \E i \in 1..Len(windows[b]) - 1 :
    /\ windows[b][i] = windows[b][i + 1]
    /\ SupportedId(windows[b][i].pairExchangeId)
    /\ liveLog[b] # << >>


\* C14: a run of the live pipeline has a socket only if the refresh of the
\* available pair-exchanges it waited for resolved; a run whose refresh
\* rejected has no socket and its error reached pullLoop's error callback.
C14_SubscribedAfterRefresh ==
  \A n \in 1..Len(subs) :
    /\ subs[n].ws # "none" => pairsInvs[subs[n].await].outcome = "resolved"
    /\ pairsInvs[subs[n].await].outcome = "rejected" =>
         /\ subs[n].ws = "none"
         /\ subs[n].pc # "refresh" =>
              subs[n].handler = "error" /\ subs[n].endedBy = "refresh"

C14_Witness ==
  \E n, m \in 1..Len(subs) :
    /\ subs[n].endedBy = "refresh" /\ subs[n].handler = "error"
    /\ subs[m].ws = "open"

\* C16: every run of the pipeline launched by pullLoop eventually starts
\* its subscription, or has its refresh error delivered.
C16_RelaunchSubscribes ==
  \A n \in 1..MaxLaunches :
    (Len(subs) >= n) ~>
      (Len(subs) >= n /\ (subs[n].ws # "none" \/ subs[n].handler = "error"))

\* C15: process.exit(1) of subscribePriceUpdate ("too many WebSocket
\* opened") is never reached, whatever errors, completions and auto-reboot
\* timers occur.
C15_TooManySocketsUnreachable == ~exited

\* C17: for every subscription, close of the socket is requested at most
\* once and websocketTotal is decremented at most once, and both exactly
\* once when the socket is closed.
C17_ClosedAndUncountedOnce ==
  \A n \in 1..Len(subs) :
    /\ subs[n].closeReq <= 1
    /\ subs[n].dec <= 1
    /\ subs[n].ws = "closed" => subs[n].closeReq = 1 /\ subs[n].dec = 1


\* the answered requests of a kind
Done(kind) == {r \in 1..Len(reqs) : reqs[r].kind = kind /\ reqs[r].pc = "done"}

\* the documents a request was answered with by the store
Queried(r) == {reqs[r].queried[i] : i \in DOMAIN reqs[r].queried}

\* C18: getHistoRequest and getExchanges do not fail because of the
\* provider: a getHistoRequest rejects only when the store read of its
\* histo refresh rejected, and when fetchHistoSeries failed it answers with
\* the histo of the document read from the store; getExchanges never
\* rejects, and when fetchExchanges failed it answers from the stored
\* exchanges; a failed fetchAvailablePairExchanges fails neither.
C18_ProviderFailureStillAnswers ==
  /\ \A r \in Done("histo") :
       /\ reqs[r].failed =>
            /\ histoInvocation(r).outcome = "rejected"
            /\ histoInvocation(r).provider = "none"
       /\ (reqs[r].chosen # Null /\ histoInvocation(r).provider = "failed") =>
            /\ ~reqs[r].failed
            /\ \E p \in reqs[r].response.pairs :
                 p.pairResult = histoSet(histoInvocation(r).cached.h, LatestKey,
                                         reqs[r].chosen.latest)
       /\ pairsInvs[reqs[r].pairsAwait].outcome = "rejected" =>
            reqs[r].failed \/ reqs[r].response.tag = "histo"
  /\ \A r \in Done("exchanges") :
       /\ ~reqs[r].failed
       /\ reqs[r].response.tag = "exchanges"
       /\ exchangesInvs[reqs[r].exchangesAwait].outcome = "rejected" =>
            /\ reqs[r].exchanges \subseteq dbExchanges
            /\ \A i \in DOMAIN reqs[r].response.list :
                 reqs[r].response.list[i] \in
                   dbExchanges \cup {[id |-> e, name |-> e] : e \in {"KRAKEN", "BITSTAMP"}}

C18_Witness ==
  /\ \E r \in Done("histo") :
       /\ reqs[r].chosen # Null
       /\ histoInvocation(r).provider = "failed"
       /\ pairsInvs[reqs[r].pairsAwait].outcome = "rejected"
       /\ reqs[r].response.tag = "histo" /\ reqs[r].response.pairs # {}
  /\ \E r \in Done("exchanges") :
       /\ exchangesInvs[reqs[r].exchangesAwait].outcome = "rejected"
       /\ Len(reqs[r].response.list) > 0

\* the case of S5 for an answered request: no exchange named, X (KRAKEN)
\* with a year of history and volume 10, Y (BITSTAMP) without and volume
\* 1000, both with history for the 30 last days
S5(r) ==
  /\ reqs[r].exchange = "" /\ ~reqs[r].failed
  /\ \E x, y \in Queried(r) :
       /\ x.exchange = "KRAKEN" /\ x.hasHistoryFor1Year /\ x.yesterdayVolume = 10
       /\ y.exchange = "BITSTAMP" /\ ~y.hasHistoryFor1Year /\ y.yesterdayVolume = 1000
       /\ x.hasHistoryFor30LastDays /\ y.hasHistoryFor30LastDays

\* C19: in the case of S5 the response of getHistoRequest is that of X:
\* the records are ranked by hasHistoryFor1Year, then by yesterdayVolume.
C19_S5ReturnsX ==
  \A r \in Done("histo") :
    S5(r) => \A p \in reqs[r].response.pairs : p.exchange = "KRAKEN"

\* C20: a document that had hasHistoryFor30LastDays false when the store
\* answered the request is not the one getHistoRequest selects, and its
\* exchange is not in the response, whether the request names an exchange
\* or not.
C20_NoRecentHistoryNeverSelected ==
  \A r \in 1..Len(reqs) : reqs[r].kind = "histo" =>
    \A doc \in Queried(r) : ~doc.hasHistoryFor30LastDays =>
      /\ reqs[r].chosen # Null => reqs[r].chosen.exchange # doc.exchange
      /\ reqs[r].response.tag = "histo" =>
           \A p \in reqs[r].response.pairs : p.exchange # doc.exchange

C20_Witness ==
  /\ \E r \in Done("histo") :
       /\ reqs[r].exchange = "BITSTAMP"
       /\ \E doc \in Queried(r) : doc.exchange = "BITSTAMP" /\ ~doc.hasHistoryFor30LastDays
       /\ reqs[r].response.tag = "histo" /\ reqs[r].response.pairs = {}
  /\ \E r \in Done("histo") :
       /\ reqs[r].exchange = ""
       /\ \E doc \in Queried(r) : 
            /\ doc.exchange = "BITSTAMP" /\ ~doc.hasHistoryFor30LastDays
            /\ doc.yesterdayVolume = 1000
       /\ reqs[r].response.tag = "histo"
       /\ \E p \in reqs[r].response.pairs : p.exchange = "KRAKEN"

\* C21: no exchange that matches an entry of BLACKLIST_EXCHANGES, letter
\* case aside, is in the response of getHistoRequest or of getExchanges,
\* also when the request names it.
C21_BlacklistedNeverAnswered ==
  LET entries == {toLowerCase(BLACKLIST_EXCHANGES[i]) : i \in DOMAIN BLACKLIST_EXCHANGES}
  IN  /\ \A r \in Done("histo") : reqs[r].response.tag = "histo" =>
           \A p \in reqs[r].response.pairs : toLowerCase(p.exchange) \notin entries
      /\ \A r \in Done("exchanges") :
           \A i \in DOMAIN reqs[r].response.list :
             toLowerCase(reqs[r].response.list[i].id) \notin entries

C21_Witness ==
  /\ BLACKLIST_EXCHANGES = <<"BitStamp">>
  /\ \E r \in Done("histo") :
       /\ reqs[r].exchange = "BITSTAMP"
       /\ \E doc \in Queried(r) : doc.exchange = "BITSTAMP" /\ doc.hasHistoryFor30LastDays
       /\ reqs[r].response.tag = "histo" /\ reqs[r].response.pairs = {}
  /\ \E r \in Done("exchanges") :
       /\ \E doc \in Queried(r) : doc.exchange = "BITSTAMP"
       /\ Len(reqs[r].response.list) = 1

\* the answered getHistoRequest calls with a pair in the response, the
\* histo their fetchAndCacheHisto resolved with, and the keys returned
Served == {r \in Done("histo") : ~reqs[r].failed /\ reqs[r].chosen # Null}

histoOf(r) == histoInvocation(r).value.h

pairResultOf(r) == (CHOOSE p \in reqs[r].response.pairs : TRUE).pairResult

\* C22, as claimed: with `at`, every key of the returned PairData is a
\* member of `at`; without, the dated keys returned are those of the histo
\* greater than `after`, or all of them.
C22_OnlyListedKeys ==
  \A r \in Served :
    IF reqs[r].at.given
      THEN histoKeys(pairResultOf(r)) \subseteq reqs[r].at.keys
      ELSE histoKeys(pairResultOf(r)) \ {LatestKey} =
             {k \in histoKeys(histoOf(r)) \ {LatestKey} :
                reqs[r].after = Null \/ keyGreater(k, reqs[r].after)}

\* C22, amended: the key latest is always returned, with the latest of the
\* selected document; the other keys returned are the dated keys of the
\* histo that are in `at`, or without `at` those greater than `after`, or
\* all of them, each with the rate of the histo.
C22_ListedKeysAndLatest ==
  \A r \in Served :
    LET dated == histoKeys(histoOf(r)) \ {LatestKey}
        kept == IF reqs[r].at.given THEN dated \cap reqs[r].at.keys
                ELSE IF reqs[r].after = Null THEN dated
                ELSE {k \in dated : k[2] > reqs[r].after[2]}
    IN  /\ histoKeys(pairResultOf(r)) = kept \cup {LatestKey}
        /\ histoGet(pairResultOf(r), LatestKey) = reqs[r].chosen.latest
        /\ \A k \in kept : histoGet(pairResultOf(r), k) = histoGet(histoOf(r), k)

C22_Witness ==
  /\ \E r \in Served :
       /\ ~reqs[r].at.given /\ reqs[r].after = DayKey(2)
       /\ DayKey(2) \in histoKeys(histoOf(r))
       /\ histoKeys(pairResultOf(r)) = {DayKey(1), LatestKey}
  /\ \E r \in Served :
       /\ reqs[r].at = At({DayKey(7)})
       /\ histoKeys(histoOf(r)) # {}
       /\ histoKeys(pairResultOf(r)) = {LatestKey}

\* C23: a refresh of the available pair-exchanges that resolves leaves
\* every document stored before as it was, all fields included, and gives
\* each id the provider lists and the store did not have the default
\* document.
C23_InsertIfAbsent ==
  [][(\E k \in 1..Len(pairsInvs) :
        pairsInvs[k].outcome = "pending" /\ pairsInvs'[k].outcome = "resolved")
     => /\ \A id \in DOMAIN db : id \in DOMAIN db' /\ db'[id] = db[id]
        /\ DOMAIN db' = DOMAIN db \cup ProviderPairExchanges
        /\ \A id \in DOMAIN db' \ DOMAIN db : db'[id] = DefaultPairExchangeData(id)]_vars

C23_Witness ==
  /\ \E k \in 1..Len(pairsInvs) : pairsInvs[k].outcome = "resolved"
  /\ db[KRAKEN_ETH_USD] = DefaultPairExchangeData(KRAKEN_ETH_USD)
  /\ db[BITSTAMP_BTC_USD].histo_daily = StoredHisto
  /\ db[BITSTAMP_BTC_USD].yesterdayVolume = 1000
  /\ db[KRAKEN_BTC_USD].hasHistoryFor1Year

\* the write a step applied to the collection, if it applied one
Applied(op) ==
  \E w \in pendingWrites : w.op = op /\ pendingWrites' = pendingWrites \ {w}

\* C24, as claimed: latest and latestDate of a document change only when a
\* write of the live pipeline is applied.
C24_OnlyLiveWritesLatest ==
  [][\A id \in DOMAIN db :
       (db'[id].latest # db[id].latest \/ db'[id].latestDate # db[id].latestDate)
         => Applied("updateLiveRates")]_vars

\* C24, amended: latest changes only when a write of the live pipeline is
\* applied, which sets latestDate to the time of the write; besides,
\* latestDate changes only when the stats of a daily refresh that carry a
\* latestDate are applied, and becomes the time that refresh read.
C24_LatestLiveOnly ==
  [][\A id \in DOMAIN db :
       /\ db'[id].latest # db[id].latest =>
            Applied("updateLiveRates") /\ db'[id].latestDate = DateOf(now)
       /\ db'[id].latestDate # db[id].latestDate =>
            \/ Applied("updateLiveRates") /\ db'[id].latestDate = DateOf(now)
            \/ \E w \in pendingWrites :
                 /\ w.op = "updatePairExchangeStats" /\ w.id = id
                 /\ pendingWrites' = pendingWrites \ {w}
                 /\ "latestDate" \in DOMAIN w.stats
                 /\ db'[id].latestDate = w.stats.latestDate
                 /\ w.stats.latestDate = DateOf(invs[w.by[1]][w.by[2]].fetchNow)]_vars

\* a document that holds a live rate and the stats of a daily refresh
C24_Witness ==
  \E id \in DOMAIN db :
    /\ db[id].latest # DefaultPairExchangeData(id).latest
    /\ db[id].latestDate # Null
    /\ db[id].historyLoadedAt_daily # Null
    /\ db[id].histo_daily # {}


\* the days of a histo: its keys other than "latest"
datedKeys(histo) == histoKeys(histo) \ {LatestKey}

\* the keys among the 29 days that end two days before nowT whose rate is
\* positive
positiveDays(histo, nowT) ==
  {x \in histo : /\ x.v.m > 0
                 /\ \E i \in 2..30 : x.k = formatTime(nowT - i * granularityMs.daily, "daily")}

historyCount(histo, nowT) ==
  Cardinality(positiveDays(histo, nowT)) + (IF LatestKey \in histoKeys(histo) THEN 1 ELSE 0)

\* the rates that count are positive and the largest is below
\* MAXIMUM_RATIO_EXTREME_VARIATION times the smallest
ratioValid(histo, nowT) ==
  LET rates == {x.v.m : x \in positiveDays(histo, nowT)}
                 \cup {x.v.m : x \in {y \in histo : y.k = LatestKey /\ y.v.m # 0}}
  IN  /\ rates # {}
      /\ \A a \in rates : a > 0
      /\ \A a, b \in rates : a < MAXIMUM_RATIO_EXTREME_VARIATION * b

C26_OldestDayAgoGrows ==
  [][\A id \in DOMAIN db : db'[id].oldestDayAgo >= db[id].oldestDayAgo]_vars

\* the deriver ran twice on a histo that grew in between and the age stored
\* is that of the oldest day
C26_Witness ==
  /\ syncJob.pc = "done"
  /\ syncJob.run = 2
  /\ KRAKEN_BTC_USD \in syncJob.written
  /\ grown >= 1
  /\ elapsed >= 2
  /\ db[KRAKEN_BTC_USD].oldestDayAgo >= 4

\* C28: the deriver given a daily histo without a day (empty, or "latest"
\* only) writes nothing: the stored flags stay as they were
C28_NoDayNoWrite ==
  [][\A id \in DOMAIN db :
       (syncJob.pc = "loop" /\ syncJob.ids[syncJob.i] = id /\ syncJob' # syncJob
          /\ datedKeys(db[id].histo_daily) = {})
         => db' = db /\ id \notin syncJob'.written]_vars

\* the job went past a document that has "latest" only and left it alone
C28_Witness ==
  /\ syncJob.pc \in {"loop", "done"}
  /\ syncJob.i >= 2
  /\ syncJob.ids[1] = KRAKEN_BTC_USD
  /\ histoKeys(db[KRAKEN_BTC_USD].histo_daily) = {LatestKey}
  /\ KRAKEN_BTC_USD \notin syncJob.written


\* the ops in a sequence of issued store calls
Ops(issued) == {issued[i] : i \in DOMAIN issued}

\* the histo fetchHisto builds for an invocation from what the provider
\* answered
freshHisto(key, k) ==
  HistoValue(fetchHisto(key[1], key[2], seriesOf(feed, invs[key][k].fetchNow, key[2]),
                        invs[key][k].fetchNow, invs[key][k].fetchNow).histo)

prefetchOrder ==
  [n \in 1..((Len(prefetch.log) + 1) \div 2) |-> prefetch.log[2 * n - 1][1]]

\* a date as a number, null below every date
dateNumber(date) == IF date = Null THEN 0 ELSE date[2]

\* the latestDate the store held for id when the prefetch began, null for
\* a pair it did not hold
storedLatestDate(id) ==
  IF id \in DOMAIN prefetch.stored THEN prefetch.stored[id] ELSE Null

\* C29: the prefetch goes through the pair-exchanges by latestDate
\* descending, those without a latestDate last, and for each issues the
\* daily refresh and then the hourly one before the next pair
C29_PrefetchByLatestDate ==
  prefetch.pc # "idle" =>
    /\ \A m, n \in DOMAIN prefetchOrder :
         m < n => dateNumber(storedLatestDate(prefetchOrder[m]))
                    >= dateNumber(storedLatestDate(prefetchOrder[n]))
    /\ \A n \in DOMAIN prefetch.log :
         /\ prefetch.log[n][2] = (IF n % 2 = 1 THEN "daily" ELSE "hourly")
         /\ n % 2 = 0 => prefetch.log[n][1] = prefetch.log[n - 1][1]


\* the days the refresh ran for
capDays == {marketcapInvs[k].day : k \in DOMAIN marketcapInvs}

\* the invocations for `day` whose call of the source is in `states`
sourceCalls(day, states) ==
  {k \in DOMAIN marketcapInvs :
     marketcapInvs[k].day = day /\ marketcapInvs[k].source \in states}

\* an invocation that began with the snapshot of its day stored returned it
\* and left the source alone; one that resolved without it called the
\* source, returned its coins and issued a write under its day
capReturns ==
  \A k \in DOMAIN marketcapInvs :
    LET inv == marketcapInvs[k]
    IN  /\ inv.had => /\ inv.source = "none"
                      /\ inv.pc = "done" => /\ inv.outcome = "resolved"
                                            /\ inv.value = dbMarketcap[inv.day]
        /\ (~inv.had /\ inv.outcome = "resolved" /\ inv.source # "none")
             => /\ inv.source = "answered"
                /\ \/ [day |-> inv.day, coins |-> inv.value] \in capWrites
                   \/ inv.day \in DOMAIN dbMarketcap

\* C30 as claimed: the stored snapshot of the day is returned without a
\* call of the source, else the source is called and its coins stored and
\* returned, and the source is called at most once for a day
C30_SourceCalledOncePerDay ==
  /\ capReturns
  /\ \A day \in capDays :
       Cardinality(sourceCalls(day, {"pending", "answered", "failed"})) <= 1

C32_KeyRoundTrip ==
  probe.fn = "formatTime" => probe.again = probe.key

\* the place of op in a sequence of issued store calls, 0 when absent
placeOf(issued, op) ==
  IF op \in Ops(issued) THEN CHOOSE i \in DOMAIN issued : issued[i] = op ELSE 0

\* C33: a daily refresh that issues both store writes issues updateHisto
\* before updatePairExchangeStats
C33_HistoWrittenBeforeStats ==
  \A key \in DOMAIN invs : \A k \in DOMAIN invs[key] :
    (key[2] = "daily" /\ invs[key][k].outcome = "resolved"
       /\ "updatePairExchangeStats" \in Ops(invs[key][k].issued))
      => /\ "updateHisto" \in Ops(invs[key][k].issued)
         /\ placeOf(invs[key][k].issued, "updateHisto")
              < placeOf(invs[key][k].issued, "updatePairExchangeStats")

\* the launches of pullLoop whose subscription has neither ended (error,
\* complete) nor been unsubscribed
liveSubs == {n \in 1..Len(subs) : ~subs[n].stopped}

\* C34: at most one live-price subscription is open at any time: pullLoop
\* runs only when every earlier subscription has ended or been unsubscribed
C34_OneSubscriptionAtATime == Cardinality(liveSubs) <= 1

\* C35 as stated: every invocation of the throttled function body is started
\* by a call (leading edge), never by the throttle's timer
C35_InvokedOnlyInsideCalls ==
  \A key \in DOMAIN invs : \A k \in DOMAIN invs[key] :
    /\ invs[key][k].kind = "leading"
    /\ \E c \in DOMAIN calls[key] :
         calls[key][c].started /\ calls[key][c].res = k

\* the calls of key that were handed the promise of an earlier invocation
\* while invocations 1..n existed
coalescedCalls(key, n) ==
  {c \in DOMAIN calls[key] : ~calls[key][c].started /\ calls[key][c].ninv = n}

\* C35, amended: an invocation is started either inside the call that is
\* handed its promise, or by the timer at the end of a window in which a
\* call was coalesced; there are never more invocations than calls
C35_InvokedByCallOrTrailingEdge ==
  \A key \in DOMAIN invs :
    /\ Len(invs[key]) <= Len(calls[key])
    /\ \A k \in DOMAIN invs[key] :
         \/ /\ invs[key][k].kind = "leading"
            /\ \E c \in DOMAIN calls[key] :
                 /\ calls[key][c].started /\ calls[key][c].res = k
                 /\ calls[key][c].t = invs[key][k].start
         \/ /\ invs[key][k].kind = "trailing"
            /\ k > 1
            /\ \E c \in coalescedCalls(key, k - 1) :
                 calls[key][c].t <= invs[key][k].start

C35_Witness ==
  \E key \in DOMAIN invs : \E k \in DOMAIN invs[key] :
    /\ invs[key][k].kind = "trailing"
    /\ Len(calls[key]) = k

\* C36: a stored historyLoadedAt_g equal to the current bucket key comes
\* with the histo_g of the refresh that set it: once no updateHisto of the
\* pair is in flight, the stored histo is the one a refresh that issued the
\* marker resolved with
C36_MarkerImpliesFetchedHisto ==
  \A key \in DOMAIN invs :
    LET id == key[1]
        g == key[2]
    IN  (/\ id \in DOMAIN db
         /\ db[id][historyLoadedAtField(g)] = formatTime(now, g)
         /\ ~\E w \in pendingWrites :
              w.op = "updateHisto" /\ w.id = id /\ w.granularity = g)
          => \E k \in DOMAIN invs[key] :
               /\ "updatePairExchangeStats" \in Ops(invs[key][k].issued)
               /\ invs[key][k].value = HistoValue(db[id][histoField(g)])

\* the volumes of the points of a daily series that belong to the day
\* bucket before the one of instant T
yesterdayVolumes(series, T) ==
  {series[i].volume : i \in {j \in DOMAIN series :
     formatTime(series[j].time, "daily")
       = formatTime(bucketStart(T, granularityMs.daily) - granularityMs.daily, "daily")}}

\* C38: once the writes of the first daily refresh of a pair have landed,
\* yesterdayVolume is the volume of the provider's point for the day before
\* the refresh, and 0 when the provider returned no such point
C38_YesterdayVolumeIsYesterdays ==
  \A key \in Keys :
    (/\ key[2] = "daily"
     /\ Len(invs[key]) = 1
     /\ invs[key][1].provider = "answered"
     /\ Quiescent)
      => LET T == invs[key][1].fetchNow
             vols == yesterdayVolumes(seriesOf(feed, T, "daily"), T)
         IN  IF vols = {}
               THEN db[key[1]].yesterdayVolume = 0
               ELSE db[key[1]].yesterdayVolume \in vols

\* the places in a series of the points fetchHisto files under a key
pointsUnder(series, bk, T, granularity) ==
  {i \in DOMAIN series : bucketKey(series[i].time, T, granularity) = bk}

\* the place of the most recent of these points
mostRecent(series, places) ==
  CHOOSE i \in places : \A j \in places : series[j].time <= series[i].time

\* C37: every entry of a fetched histo, 'latest' included, is the converted
\* close of the most recent of the provider's points filed under its key
C37_MostRecentPointWins ==
  \A key \in Keys : \A k \in DOMAIN invs[key] :
    Fetched(key, k) =>
      LET T == invs[key][k].fetchNow
          series == seriesOf(feed, T, key[2])
          pe == pairExchangeFromId(key[1])
          histo == invs[key][k].value.h
      IN  \A bk \in histoKeys(histo) :
            histoGet(histo, bk) =
              rateOf(pe.from, pe.to,
                     series[mostRecent(series, pointsUnder(series, bk, T, key[2]))].close)

\* the days of a histo with a positive rate among the 30 days that end
\* with the day before nowT
positiveOfLast30(histo, nowT) ==
  {x \in histo : /\ x.v.m > 0
                 /\ \E i \in 1..30 : x.k = formatTime(nowT - i * granularityMs.daily, "daily")}

\* C39: the deriver counts the days with a positive rate among the 30 days
\* that end yesterday, plus one for "latest": the flag it writes is true
\* when that count reaches MINIMAL_DAYS_TO_CONSIDER_EXCHANGE (the rates of
\* the model are all equal, so the ratio is valid)
C39_CountsThirtyDaysToYesterday ==
  [][\A id \in DOMAIN db :
       (syncJob.pc = "loop" /\ id \in syncJob'.written \ syncJob.written)
         => (db'[id].hasHistoryFor30LastDays
               <=> Cardinality(positiveOfLast30(db[id].histo_daily, now))
                     + (IF LatestKey \in histoKeys(db[id].histo_daily) THEN 1 ELSE 0)
                   >= MINIMAL_DAYS_TO_CONSIDER_EXCHANGE)]_vars

\* C40: a prefetch cycle that has ended went through every pair-exchange it
\* had sorted: fetchAndCacheHisto was called for each of them, whatever
\* failed for the pairs before
C40_EveryPairAttempted ==
  prefetch.pc = "done" =>
    \A i \in DOMAIN prefetch.sorted :
      \E n \in DOMAIN prefetch.log : prefetch.log[n] = <<prefetch.sorted[i], "daily">>

====
